---------------------------- MODULE Spec2Model ----------------------------
(***************************************************************************)
(* State-machine model of the entity-to-graph population engine            *)
(* (actions/ontology_population.py) and of the intent-to-query template    *)
(* engine (actions/query_builder.py).                                      *)
(*                                                                         *)
(* Python strings are sequences of one-character strings, so that find,    *)
(* replace, slicing, lower-casing and slugging are computed character by   *)
(* character as the code computes them.  Indices passed to and returned by *)
(* the string operators are Python's (0-based, -1 for "not found").        *)
(***************************************************************************)
EXTENDS Integers, Sequences, FiniteSets, TLC

VARIABLES
    pc,             \* position of the operation under study
    template,       \* build_query: self (a QueryTemplate)
    slots,          \* build_query: the slots dictionary
    query,          \* build_query: the returned value
    text,           \* recognize_entities: text
    rasa_entities,  \* recognize_entities: rasa_entities (None or a list)
    entities,       \* recognize_entities: the returned list
    graph,          \* the rdflib Graph being populated: a set of triples
    batch,          \* link_entities / entity_to_rdf: the entities passed
    calls,          \* number of calls counted in the specification at hand
    uri,            \* the value the last entity_to_rdf call returned
    sentences,      \* process_hdx_data_for_ontology: the extracted sentences
    idx,            \* process_hdx_data_for_ontology: next sentence (1-based)
    graph_ref,      \* per invocation: the Graph object its variable graph names
    store_reply,    \* what requests.post did: a status code or an exception
    result,         \* how the call ended: the value returned, or a raise
    posts,          \* number of requests.post calls made
    results,        \* format_query_results: results
    intent,         \* format_query_results: intent
    response,       \* format_query_results: the returned string, or a raise
    dialogues,      \* calculate_task_completion_cost: self.dialogues
    dlg,            \* number of dialogues the outer loop has entered
    turn_idx,       \* index of the next turn of the dialogue at hand
    task_turn_count,   \* turn counter per (task type, task id)
    active_tasks,   \* per task type, the ids registered and not completed
    task_turns,     \* per task type and "overall", the recorded counts
    completion_costs   \* the returned dictionary of averages

buildVars   == <<template, slots, query>>
recogVars   == <<text, rasa_entities, entities>>
graphVars   == <<graph, batch, calls, uri>>
processVars == <<sentences, idx, graph_ref>>
storeVars   == <<store_reply, result, posts>>
formatVars  == <<results, intent, response>>

costVars == <<dialogues, dlg, turn_idx, task_turn_count, active_tasks, task_turns,
              completion_costs>>
vars == <<pc, buildVars, recogVars, graphVars, processVars, storeVars, formatVars,
          costVars>>

---------------------------------------------------------------------------
(* Bounds of the explored input space.                                     *)

\* generated template bodies are concatenations of at most this many pieces
MaxPieces == 3

\* external (Rasa) entity lists hold at most this many items
MaxExternal == 2

\* entity batches of 2 facilities and 3 locations need 5; longer ones are explored
MaxBatch == 5

\* batches mixing all the entity types hold at most this many entities
MaxRuleBatch == 3

\* mapper and linker calls made in a row on one graph
MaxCalls == 4

\* entities passed to one linker call of such a row
MaxSeqBatch == 2

\* sentences of one process_hdx_data_for_ontology run
MaxSentences == 2

\* turns of one annotated dialogue
MaxTurns == 3

\* rows of a result set
MaxRows == 2

\* sentences of each of two interleaved invocations
MaxRunSentences == 1

---------------------------------------------------------------------------
(* Python values and string methods.                                       *)

\* Python's None: a value different from every character sequence
None == <<"None">>

\* the variables of the operations a specification does not exercise
IdleBuild   == template = None /\ slots = <<>> /\ query = None
IdleRecog   == text = <<>> /\ rasa_entities = [given |-> FALSE, items |-> <<>>] /\ entities = <<>>
IdleGraph   == graph = {} /\ batch = <<>> /\ calls = 0 /\ uri = None
IdleProcess == sentences = <<>> /\ idx = 0 /\ graph_ref = <<>>
IdleStore   == store_reply = None /\ result = None /\ posts = 0
IdleFormat  == results = None /\ intent = "" /\ response = [raised |-> FALSE, lines |-> <<>>]
IdleCost ==
    /\ dialogues = <<>> /\ dlg = 0 /\ turn_idx = 0
    /\ task_turn_count = <<>> /\ active_tasks = <<>> /\ task_turns = <<>>
    /\ completion_costs = <<>>

\* truthiness of a slot value: None and the empty string are falsy
Truthy(v) == v # None /\ v # <<>>

\* s[i:i+len(sub)] == sub, i a 0-based index
StartsAt(s, sub, i) ==
    /\ i >= 0
    /\ i + Len(sub) <= Len(s)
    /\ \A k \in 1..Len(sub) : s[i + k] = sub[k]

\* str.find(sub, start): lowest index >= start where sub occurs, else -1
find(s, sub, start) ==
    LET hits == { i \in start..(Len(s) - Len(sub)) : StartsAt(s, sub, i) }
    IN  IF hits = {} THEN -1
        ELSE CHOOSE i \in hits : \A j \in hits : i <= j

\* the operator `sub in s`
contains(s, sub) == find(s, sub, 0) # -1

\* s[a:b] for 0 <= a, 0 <= b
Slice(s, a, b) == SubSeq(s, a + 1, IF b < Len(s) THEN b ELSE Len(s))

\* s[a:]
SliceFrom(s, a) == SubSeq(s, a + 1, Len(s))

RECURSIVE replace(_, _, _)
\* str.replace(old, new) for a non-empty old: every non-overlapping
\* occurrence, left to right
replace(s, old, new) ==
    LET p == find(s, old, 0)
    IN  IF p = -1 THEN s
        ELSE Slice(s, 0, p) \o new \o replace(SliceFrom(s, p + Len(old)), old, new)

RECURSIVE CountOcc(_, _, _)
\* number of non-overlapping occurrences of sub in s from index start
CountOcc(s, sub, start) ==
    LET p == find(s, sub, start)
    IN  IF p = -1 THEN 0 ELSE 1 + CountOcc(s, sub, p + Len(sub))

---------------------------------------------------------------------------
(* query_builder.py: QueryTemplate.build_query                             *)

\* entity (slot) names used by the templates
location     == <<"l","o","c","a","t","i","o","n">>
request_type == <<"r","e","q","u","e","s","t","_","t","y","p","e">>
camp         == <<"c","a","m","p">>
need         == <<"n","e","e","d">>

\* f"{{{entity}}}"
Placeholder(entity) == <<"{">> \o entity \o <<"}">>

\* f"FILTER(REGEX(?{entity}"
FilterOpen(entity) == <<"F","I","L","T","E","R","(","R","E","G","E","X","(","?">> \o entity

\* mutant of MissingRequired: tests only that the key is present
MissingRequired_KeyOnly(t, s) ==
    \E i \in 1..Len(t.required_entities) :
        t.required_entities[i] \notin DOMAIN s

\* the required-entities check: some required name is not a key of slots or
\* has a falsy value
MissingRequired(t, s) ==
    \E i \in 1..Len(t.required_entities) :
        \/ t.required_entities[i] \notin DOMAIN s
        \/ ~Truthy(s[t.required_entities[i]])

RECURSIVE ReplaceRequired(_, _, _, _)
\* the loop over self.required_entities, from list index i
ReplaceRequired(q, req, s, i) ==
    IF i > Len(req) THEN q
    ELSE ReplaceRequired(replace(q, Placeholder(req[i]), s[req[i]]), req, s, i + 1)

\* the else branch of the optional loop: cut from the opening token through
\* the first ")" found after it (find(...) + 1, which is 0 when none is found)
RemoveFilter(q, entity) ==
    LET filter_start == find(q, FilterOpen(entity), 0)
    IN  IF filter_start # -1
        THEN LET filter_end == find(q, <<")">>, filter_start) + 1
             IN  Slice(q, 0, filter_start) \o SliceFrom(q, filter_end)
        ELSE q

RECURSIVE ReplaceOptional(_, _, _, _)
\* the loop over self.optional_entities, from list index i
ReplaceOptional(q, opt, s, i) ==
    IF i > Len(opt) THEN q
    ELSE LET entity == opt[i]
             q2 == IF entity \in DOMAIN s /\ Truthy(s[entity])
                   THEN replace(q, Placeholder(entity), s[entity])
                   ELSE RemoveFilter(q, entity)
         IN  ReplaceOptional(q2, opt, s, i + 1)

\* QueryTemplate.build_query(self, slots): None, or the substituted query
build_query(t, s) ==
    IF MissingRequired(t, s) THEN None
    ELSE ReplaceOptional(
             ReplaceRequired(t.query_template, t.required_entities, s, 1),
             t.optional_entities, s, 1)

\* QueryTemplate.__init__
QueryTemplate(name, query_template, required_entities, optional_entities) ==
    [name |-> name, query_template |-> query_template,
     required_entities |-> required_entities,
     optional_entities |-> optional_entities]

---------------------------------------------------------------------------
(* query_builder.py: QUERY_TEMPLATES                                       *)

\* the three PREFIX lines every built-in template starts with
PrefixLines ==
    <<"\n">>
    \o <<"P","R","E","F","I","X"," ","h","u","m","a","n","i","t","a","r","i","a","n",":"," ","<","h","t","t","p",":","/","/","e","x","a","m","p","l","e",".","o","r","g","/","h","u","m","a","n","i","t","a","r","i","a","n","#",">","\n">>
    \o <<"P","R","E","F","I","X"," ","r","d","f",":"," ","<","h","t","t","p",":","/","/","w","w","w",".","w","3",".","o","r","g","/","1","9","9","9","/","0","2","/","2","2","-","r","d","f","-","s","y","n","t","a","x","-","n","s","#",">","\n">>
    \o <<"P","R","E","F","I","X"," ","r","d","f","s",":"," ","<","h","t","t","p",":","/","/","w","w","w",".","w","3",".","o","r","g","/","2","0","0","0","/","0","1","/","r","d","f","-","s","c","h","e","m","a","#",">","\n">>
    \o <<"\n">>

\* the last lines of every built-in template
FilterLocationLine == <<" "," "," "," ","F","I","L","T","E","R","(","R","E","G","E","X","(","?","l","o","c","N","a","m","e",","," ","\"","{","l","o","c","a","t","i","o","n","}","\"",","," ","\"","i","\"",")",")","\n">>
FilterRequestLine == <<" "," "," "," ","F","I","L","T","E","R","(","R","E","G","E","X","(","?","s","e","r","v","i","c","e","N","a","m","e",","," ","\"","{","r","e","q","u","e","s","t","_","t","y","p","e","}","\"",","," ","\"","i","\"",")",")","\n">>
ClosingLines == <<"}","\n"," "," "," "," "," "," "," "," ">>

HealthFacilitiesQuery ==
    PrefixLines
    \o <<"S","E","L","E","C","T"," ","?","f","a","c","i","l","i","t","y"," ","?","f","a","c","i","l","i","t","y","N","a","m","e"," ","?","l","o","c"," ","?","l","o","c","N","a","m","e","\n">>
    \o <<"W","H","E","R","E"," ","{","\n">>
    \o <<" "," "," "," ","?","f","a","c","i","l","i","t","y"," ","r","d","f",":","t","y","p","e"," ","h","u","m","a","n","i","t","a","r","i","a","n",":","H","e","a","l","t","h","F","a","c","i","l","i","t","y"," ",".","\n">>
    \o <<" "," "," "," ","?","f","a","c","i","l","i","t","y"," ","r","d","f","s",":","l","a","b","e","l"," ","?","f","a","c","i","l","i","t","y","N","a","m","e"," ",".","\n">>
    \o <<" "," "," "," ","?","f","a","c","i","l","i","t","y"," ","h","u","m","a","n","i","t","a","r","i","a","n",":","h","a","s","L","o","c","a","t","i","o","n"," ","?","l","o","c"," ",".","\n">>
    \o <<" "," "," "," ","?","l","o","c"," ","r","d","f","s",":","l","a","b","e","l"," ","?","l","o","c","N","a","m","e"," ",".","\n">>
    \o FilterLocationLine
    \o ClosingLines

WaterSourcesQuery ==
    PrefixLines
    \o <<"S","E","L","E","C","T"," ","?","s","o","u","r","c","e"," ","?","s","o","u","r","c","e","N","a","m","e"," ","?","l","o","c","N","a","m","e"," ","?","s","t","a","t","u","s","\n">>
    \o <<"W","H","E","R","E"," ","{","\n">>
    \o <<" "," "," "," ","?","s","o","u","r","c","e"," ","r","d","f",":","t","y","p","e"," ","h","u","m","a","n","i","t","a","r","i","a","n",":","W","a","t","e","r","S","o","u","r","c","e"," ",".","\n">>
    \o <<" "," "," "," ","?","s","o","u","r","c","e"," ","r","d","f","s",":","l","a","b","e","l"," ","?","s","o","u","r","c","e","N","a","m","e"," ",".","\n">>
    \o <<" "," "," "," ","?","s","o","u","r","c","e"," ","h","u","m","a","n","i","t","a","r","i","a","n",":","h","a","s","L","o","c","a","t","i","o","n"," ","?","l","o","c"," ",".","\n">>
    \o <<" "," "," "," ","?","l","o","c"," ","r","d","f","s",":","l","a","b","e","l"," ","?","l","o","c","N","a","m","e"," ",".","\n">>
    \o <<" "," "," "," ","?","s","o","u","r","c","e"," ","h","u","m","a","n","i","t","a","r","i","a","n",":","h","a","s","S","t","a","t","u","s"," ","?","s","t","a","t","u","s"," ",".","\n">>
    \o FilterLocationLine
    \o ClosingLines

CampsQuery ==
    PrefixLines
    \o <<"S","E","L","E","C","T"," ","?","c","a","m","p"," ","?","c","a","m","p","N","a","m","e"," ","?","l","o","c","N","a","m","e"," ","?","c","a","p","a","c","i","t","y"," ","?","s","t","a","t","u","s","\n">>
    \o <<"W","H","E","R","E"," ","{","\n">>
    \o <<" "," "," "," ","?","c","a","m","p"," ","r","d","f",":","t","y","p","e"," ","h","u","m","a","n","i","t","a","r","i","a","n",":","C","a","m","p"," ",".","\n">>
    \o <<" "," "," "," ","?","c","a","m","p"," ","r","d","f","s",":","l","a","b","e","l"," ","?","c","a","m","p","N","a","m","e"," ",".","\n">>
    \o <<" "," "," "," ","?","c","a","m","p"," ","h","u","m","a","n","i","t","a","r","i","a","n",":","h","a","s","L","o","c","a","t","i","o","n"," ","?","l","o","c"," ",".","\n">>
    \o <<" "," "," "," ","?","l","o","c"," ","r","d","f","s",":","l","a","b","e","l"," ","?","l","o","c","N","a","m","e"," ",".","\n">>
    \o <<" "," "," "," ","?","c","a","m","p"," ","h","u","m","a","n","i","t","a","r","i","a","n",":","h","a","s","C","a","p","a","c","i","t","y"," ","?","c","a","p","a","c","i","t","y"," ",".","\n">>
    \o <<" "," "," "," ","?","c","a","m","p"," ","h","u","m","a","n","i","t","a","r","i","a","n",":","h","a","s","S","t","a","t","u","s"," ","?","s","t","a","t","u","s"," ",".","\n">>
    \o FilterLocationLine
    \o ClosingLines

AidRequestQuery ==
    PrefixLines
    \o <<"S","E","L","E","C","T"," ","?","o","r","g","a","n","i","z","a","t","i","o","n"," ","?","o","r","g","N","a","m","e"," ","?","l","o","c","N","a","m","e"," ","?","s","e","r","v","i","c","e"," ","?","s","e","r","v","i","c","e","N","a","m","e","\n">>
    \o <<"W","H","E","R","E"," ","{","\n">>
    \o <<" "," "," "," ","?","o","r","g","a","n","i","z","a","t","i","o","n"," ","r","d","f",":","t","y","p","e"," ","h","u","m","a","n","i","t","a","r","i","a","n",":","N","G","O"," ",".","\n">>
    \o <<" "," "," "," ","?","o","r","g","a","n","i","z","a","t","i","o","n"," ","r","d","f","s",":","l","a","b","e","l"," ","?","o","r","g","N","a","m","e"," ",".","\n">>
    \o <<" "," "," "," ","?","o","r","g","a","n","i","z","a","t","i","o","n"," ","h","u","m","a","n","i","t","a","r","i","a","n",":","p","r","o","v","i","d","e","s","S","e","r","v","i","c","e"," ","?","s","e","r","v","i","c","e"," ",".","\n">>
    \o <<" "," "," "," ","?","s","e","r","v","i","c","e"," ","r","d","f","s",":","l","a","b","e","l"," ","?","s","e","r","v","i","c","e","N","a","m","e"," ",".","\n">>
    \o <<" "," "," "," ","?","o","r","g","a","n","i","z","a","t","i","o","n"," ","h","u","m","a","n","i","t","a","r","i","a","n",":","h","a","s","L","o","c","a","t","i","o","n"," ","?","l","o","c"," ",".","\n">>
    \o <<" "," "," "," ","?","l","o","c"," ","r","d","f","s",":","l","a","b","e","l"," ","?","l","o","c","N","a","m","e"," ",".","\n">>
    \o FilterRequestLine
    \o FilterLocationLine
    \o ClosingLines

\* the registry, keyed by intent name
QUERY_TEMPLATES ==
    [query_health_facilities_swa |->
        QueryTemplate("health_facilities", HealthFacilitiesQuery, <<>>, <<location>>),
     query_water_sources_swa |->
        QueryTemplate("water_sources", WaterSourcesQuery, <<>>, <<location>>),
     query_camps_swa |->
        QueryTemplate("camps", CampsQuery, <<>>, <<location>>),
     submit_aid_request_swa |->
        QueryTemplate("aid_request", AidRequestQuery, <<>>, <<request_type, location>>)]

BuiltinTemplates == {QUERY_TEMPLATES[k] : k \in DOMAIN QUERY_TEMPLATES}

---------------------------------------------------------------------------
(* Inputs of build_query: the built-in templates, and templates generated  *)
(* from filter-clause pieces; slot mappings over the declared names.       *)

goma == <<"g","o","m","a">>

\* the pieces generated template bodies are concatenated from
TemplatePieces ==
    { FilterOpen(location),
      <<","," ","\"","{","l","o","c","a","t","i","o","n","}","\"",","," ","\"","i","\"",")">>,
      <<")">>,
      <<"(">>,
      <<"?","c"," ","r","d","f","s",":","l","a","b","e","l"," ","\"","{","c","a","m","p","}","\""," ","."," ">>,
      <<"?","n"," ","r","d","f","s",":","l","a","b","e","l"," ","\"","{","n","e","e","d","}","\""," ","."," ">> }

RECURSIVE Concat(_, _)
\* the concatenation of the sequences ss[i], ss[i+1], ...
Concat(ss, i) == IF i > Len(ss) THEN <<>> ELSE ss[i] \o Concat(ss, i + 1)

GeneratedBodies ==
    { Concat(ps, 1) : ps \in UNION { [1..k -> TemplatePieces] : k \in 0..MaxPieces } }

GeneratedTemplates ==
    { QueryTemplate("generated", b, req, <<location>>) :
        b \in GeneratedBodies, req \in { <<>>, <<camp>>, <<camp, need>> } }

Templates == BuiltinTemplates \cup GeneratedTemplates

\* a slot is absent, None, empty or filled; a filled slot may hold text that
\* reads as a placeholder token
SlotValues == { None, <<>>, goma, Placeholder(location) }

Range(f) == { f[i] : i \in DOMAIN f }

DeclaredNames(t) == Range(t.required_entities) \cup Range(t.optional_entities)

SlotMaps(t) == UNION { [D -> SlotValues] : D \in SUBSET DeclaredNames(t) }

---------------------------------------------------------------------------
(* Specification SpecBuild: one build_query call on a chosen template.     *)

InitBuild ==
    /\ pc = "build"
    /\ template \in Templates
    /\ slots \in SlotMaps(template)
    /\ query = None
    /\ IdleRecog /\ IdleGraph /\ IdleProcess /\ IdleStore /\ IdleFormat
    /\ IdleCost

BuildQuery ==
    /\ pc = "build"
    /\ query' = build_query(template, slots)
    /\ pc' = "built"
    /\ UNCHANGED <<template, slots>>
    /\ UNCHANGED <<recogVars, graphVars, processVars, storeVars, formatVars>>
    /\ UNCHANGED costVars

NextBuild == BuildQuery

SpecBuild == InitBuild /\ [][NextBuild]_vars

---------------------------------------------------------------------------
(* Properties of build_query.                                              *)

\* the 1-based positions of character c in s
Positions(s, c) == { k \in 1..Len(s) : s[k] = c }

\* number of elements of S that lie in lo..hi
CountIn(S, lo, hi) == Cardinality({ k \in S : lo <= k /\ k <= hi })

\* every ")" closes an earlier "(" and every "(" is closed
Balanced(s) ==
    LET opens == Positions(s, "(")
        closes == Positions(s, ")")
    IN  /\ Cardinality(opens) = Cardinality(closes)
        /\ \A c \in closes : CountIn(opens, 1, c) >= CountIn(closes, 1, c)

\* the slot of this name is absent or empty
Omitted(name) == name \notin DOMAIN slots \/ slots[name] \in { None, <<>> }

OmittedOptionals == { n \in Range(template.optional_entities) : Omitted(n) }

\* C1: for every built-in template and every optional placeholder omitted from
\* the slots, the built query has lost the FILTER clause of that placeholder
\* and holds no {placeholder} token.
C1_BuiltinFilterRemoved ==
    (pc = "built" /\ template \in BuiltinTemplates) =>
        /\ \A n \in OmittedOptionals : ~contains(query, Placeholder(n))
        /\ CountOcc(query, <<"F","I","L","T","E","R","(">>, 0) =
               CountOcc(template.query_template, <<"F","I","L","T","E","R","(">>, 0)
                   - Cardinality(OmittedOptionals)

\* index one past the ")" that closes the first "(" at or after index i
\* (the length of s when that "(" is never closed)
ClauseEnd(s, i) ==
    LET opens == Positions(s, "(")
        closes == Positions(s, ")")
        ends == { c \in closes : c > i /\ CountIn(opens, i + 1, c) = CountIn(closes, i + 1, c) }
    IN  IF ends = {} THEN Len(s)
        ELSE CHOOSE c \in ends : \A d \in ends : c <= d

\* the template body is balanced and its only {name} token sits inside the
\* clause opened by the first FILTER(REGEX(?name
SitsInFilter(body, name) ==
    LET fs == find(body, FilterOpen(name), 0)
        fe == ClauseEnd(body, fs)
    IN  /\ fs # -1
        /\ Balanced(body)
        /\ contains(Slice(body, fs, fe), Placeholder(name))
        /\ ~contains(Slice(body, 0, fs), Placeholder(name))
        /\ ~contains(SliceFrom(body, fe), Placeholder(name))

\* C2: a balanced template whose optional placeholder sits in a clause opening
\* with FILTER(REGEX(?name, built with the slot omitted, gives a query with
\* balanced parentheses, the clause gone and no {name} token.
C2_RemovalKeepsWellFormed ==
    (/\ pc = "built"
     /\ query # None
     /\ \A r \in Range(template.required_entities) : Balanced(slots[r])) =>
        \A n \in OmittedOptionals :
            SitsInFilter(template.query_template, n) =>
                /\ Balanced(query)
                /\ ~contains(query, Placeholder(n))
                /\ ~contains(query, FilterOpen(n))

\* C10: when a required name is absent from the slots or has an empty value,
\* build_query returns None, whatever the optional slots hold.
C10_RequiredMissingGivesNone ==
    (pc = "built" /\ \E r \in Range(template.required_entities) : Omitted(r)) =>
        query = None

\* a required slot is empty while the optional slot is filled
C10_Witness ==
    /\ pc = "built"
    /\ template.required_entities = <<camp, need>>
    /\ camp \in DOMAIN slots /\ slots[camp] = goma
    /\ need \in DOMAIN slots /\ slots[need] = <<>>
    /\ location \in DOMAIN slots /\ slots[location] = goma
    /\ contains(template.query_template, Placeholder(camp))
    /\ query = None

---------------------------------------------------------------------------
(* ontology_population.py: entity types, node URIs, entity_to_rdf          *)

health_facility == <<"h","e","a","l","t","h","_","f","a","c","i","l","i","t","y">>
water_source    == <<"w","a","t","e","r","_","s","o","u","r","c","e">>
organization    == <<"o","r","g","a","n","i","z","a","t","i","o","n">>
service         == <<"s","e","r","v","i","c","e">>
person          == <<"p","e","r","s","o","n">>
sickness_type   == <<"s","i","c","k","n","e","s","s","_","t","y","p","e">>
service_type    == <<"s","e","r","v","i","c","e","_","t","y","p","e">>
sickness        == <<"s","i","c","k","n","e","s","s">>
person_name     == <<"p","e","r","s","o","n","_","n","a","m","e">>

\* str.lower() on one ASCII character
LowerChar(c) ==
    CASE c = "A" -> "a" [] c = "B" -> "b" [] c = "C" -> "c" [] c = "D" -> "d"
      [] c = "E" -> "e" [] c = "F" -> "f" [] c = "G" -> "g" [] c = "H" -> "h"
      [] c = "I" -> "i" [] c = "J" -> "j" [] c = "K" -> "k" [] c = "L" -> "l"
      [] c = "M" -> "m" [] c = "N" -> "n" [] c = "O" -> "o" [] c = "P" -> "p"
      [] c = "Q" -> "q" [] c = "R" -> "r" [] c = "S" -> "s" [] c = "T" -> "t"
      [] c = "U" -> "u" [] c = "V" -> "v" [] c = "W" -> "w" [] c = "X" -> "x"
      [] c = "Y" -> "y" [] c = "Z" -> "z" [] OTHER -> c

\* str.lower()
lower(s) == [i \in 1..Len(s) |-> LowerChar(s[i])]

\* mutant of Slug: the value's case is kept
Slug_KeepCase(entity_value) ==
    replace(replace(entity_value, <<" ">>, <<"_">>), <<"-">>, <<"_">>)

\* entity_value.lower().replace(" ", "_").replace("-", "_")
Slug(entity_value) ==
    replace(replace(lower(entity_value), <<" ">>, <<"_">>), <<"-">>, <<"_">>)

\* a resource of the humanitarian namespace, named by the part after ns
URIRef(local) == <<"uri", local>>

\* an RDF literal
Literal(txt) == <<"literal", txt>>

\* URIRef(f"{ns}{entity_type}_{slug}")
EntityURI(entity) == URIRef(entity.type \o <<"_">> \o Slug(entity.value))

\* the if/elif chain choosing the ontology class
ClassOf(entity_type) ==
    CASE entity_type = camp -> <<"C","a","m","p">>
      [] entity_type = health_facility -> <<"H","e","a","l","t","h","F","a","c","i","l","i","t","y">>
      [] entity_type = water_source -> <<"W","a","t","e","r","S","o","u","r","c","e">>
      [] entity_type = location -> <<"L","o","c","a","t","i","o","n">>
      [] entity_type = organization -> <<"N","G","O">>
      [] entity_type = service -> <<"H","e","a","l","t","h","S","e","r","v","i","c","e">>
      [] entity_type = need -> <<"N","e","e","d">>
      [] entity_type = person -> <<"D","i","s","p","l","a","c","e","d","P","e","r","s","o","n">>
      [] entity_type = sickness_type -> <<"H","e","a","l","t","h","N","e","e","d">>
      [] entity_type = service_type -> <<"H","e","a","l","t","h","S","e","r","v","i","c","e">>
      [] OTHER -> <<"E","n","t","i","t","y">>

\* predicates
RDF_type   == "rdf:type"
RDFS_label == "rdfs:label"
ns_name    == "humanitarian:name"

\* the three graph.add calls of entity_to_rdf; a graph is a set of triples
NodeTriples(entity) ==
    { <<EntityURI(entity), RDF_type, URIRef(ClassOf(entity.type))>>,
      <<EntityURI(entity), RDFS_label, Literal(entity.value)>>,
      <<EntityURI(entity), ns_name, Literal(entity.value)>> }

\* mutant of entity_to_rdf: the label and the name of the node are replaced
entity_to_rdf_ReplacesLabel(entity, g) ==
    { t \in g : ~(t[1] = EntityURI(entity) /\ t[2] \in { RDFS_label, ns_name }) }
        \cup NodeTriples(entity)

\* mutant of entity_to_rdf: a node that exists already is not reused, the
\* triples go to a second node
entity_to_rdf_SecondNode(entity, g) ==
    IF \E t \in g : t[1] = EntityURI(entity)
    THEN g \cup { <<URIRef(EntityURI(entity)[2] \o <<"_","2">>), RDF_type, URIRef(ClassOf(entity.type))>>,
                  <<URIRef(EntityURI(entity)[2] \o <<"_","2">>), RDFS_label, Literal(entity.value)>>,
                  <<URIRef(EntityURI(entity)[2] \o <<"_","2">>), ns_name, Literal(entity.value)>> }
    ELSE g \cup NodeTriples(entity)

\* entity_to_rdf(entity, graph): the graph after the call (it returns
\* EntityURI(entity))
entity_to_rdf(entity, g) == g \cup NodeTriples(entity)

---------------------------------------------------------------------------
(* ontology_population.py: link_entities                                   *)

\* entity_by_type[t]: the entities of type t, in batch order
OfType(ents, t) == SelectSeq(ents, LAMBDA e : e.type = t)

\* mutant of LinkRules: every block adds (outer, pred, inner)
LinkRules_OuterAlwaysSubject ==
    << [outer |-> health_facility, inner |-> location,
        pred |-> "humanitarian:hasLocation", outerIsSubject |-> TRUE],
       [outer |-> camp, inner |-> location,
        pred |-> "humanitarian:hasLocation", outerIsSubject |-> TRUE],
       [outer |-> organization, inner |-> service,
        pred |-> "humanitarian:providesService", outerIsSubject |-> TRUE],
       [outer |-> service_type, inner |-> health_facility,
        pred |-> "humanitarian:providesService", outerIsSubject |-> TRUE],
       [outer |-> sickness_type, inner |-> health_facility,
        pred |-> "humanitarian:treats", outerIsSubject |-> TRUE],
       [outer |-> person, inner |-> camp,
        pred |-> "humanitarian:registeredAt", outerIsSubject |-> TRUE],
       [outer |-> need, inner |-> person,
        pred |-> "humanitarian:hasNeed", outerIsSubject |-> TRUE] >>

\* the seven linking blocks, in code order.  outer and inner are the types of
\* the outer and the inner loop; the triple added for a pair is
\* (outer, pred, inner) when outerIsSubject, else (inner, pred, outer).
LinkRules ==
    << [outer |-> health_facility, inner |-> location,
        pred |-> "humanitarian:hasLocation", outerIsSubject |-> TRUE],
       [outer |-> camp, inner |-> location,
        pred |-> "humanitarian:hasLocation", outerIsSubject |-> TRUE],
       [outer |-> organization, inner |-> service,
        pred |-> "humanitarian:providesService", outerIsSubject |-> TRUE],
       [outer |-> service_type, inner |-> health_facility,
        pred |-> "humanitarian:providesService", outerIsSubject |-> FALSE],
       [outer |-> sickness_type, inner |-> health_facility,
        pred |-> "humanitarian:treats", outerIsSubject |-> FALSE],
       [outer |-> person, inner |-> camp,
        pred |-> "humanitarian:registeredAt", outerIsSubject |-> TRUE],
       [outer |-> need, inner |-> person,
        pred |-> "humanitarian:hasNeed", outerIsSubject |-> FALSE] >>

\* the relationship triple a block adds for one (outer, inner) pair
RelationTriple(rule, o, i) ==
    IF rule.outerIsSubject
    THEN <<EntityURI(o), rule.pred, EntityURI(i)>>
    ELSE <<EntityURI(i), rule.pred, EntityURI(o)>>

\* mutant of LinkInner: pairs the outer entity with the first inner one only
LinkInner_FirstOnly(g, rule, o, inners, j) ==
    IF j > 1 \/ j > Len(inners) THEN g
    ELSE entity_to_rdf(inners[j], g) \cup { RelationTriple(rule, o, inners[j]) }

RECURSIVE LinkInner(_, _, _, _, _)
\* the inner loop of a block, from index j of the inner group
LinkInner(g, rule, o, inners, j) ==
    IF j > Len(inners) THEN g
    ELSE LinkInner(entity_to_rdf(inners[j], g) \cup { RelationTriple(rule, o, inners[j]) },
                   rule, o, inners, j + 1)

RECURSIVE LinkOuter(_, _, _, _, _)
\* the outer loop of a block, from index i of the outer group
LinkOuter(g, rule, outers, inners, i) ==
    IF i > Len(outers) THEN g
    ELSE LinkOuter(LinkInner(entity_to_rdf(outers[i], g), rule, outers[i], inners, 1),
                   rule, outers, inners, i + 1)

\* mutant of LinkBlock: a block with more than two pairs is skipped
LinkBlock_Capped(g, rule, ents) ==
    LET outers == OfType(ents, rule.outer)
        inners == OfType(ents, rule.inner)
    IN  IF outers # <<>> /\ inners # <<>> /\ Len(outers) * Len(inners) <= 2
        THEN LinkOuter(g, rule, outers, inners, 1)
        ELSE g

\* mutant of LinkBlock: the block runs when either type is present
LinkBlock_EitherType(g, rule, ents) ==
    LET outers == OfType(ents, rule.outer)
        inners == OfType(ents, rule.inner)
    IN  IF outers # <<>> \/ inners # <<>>
        THEN LinkOuter(g, rule, outers, inners, 1)
        ELSE g

\* one block: runs only when both types are keys of entity_by_type
LinkBlock(g, rule, ents) ==
    LET outers == OfType(ents, rule.outer)
        inners == OfType(ents, rule.inner)
    IN  IF outers # <<>> /\ inners # <<>>
        THEN LinkOuter(g, rule, outers, inners, 1)
        ELSE g

RECURSIVE LinkBlocks(_, _, _)
\* the blocks from index k on, each working on the graph the previous left
LinkBlocks(g, ents, k) ==
    IF k > Len(LinkRules) THEN g
    ELSE LinkBlocks(LinkBlock(g, LinkRules[k], ents), ents, k + 1)

\* link_entities(entities, graph): the graph after the call
link_entities(ents, g) == LinkBlocks(g, ents, 1)

---------------------------------------------------------------------------
(* ontology_population.py: recognize_entities                              *)

\* type_mapping.get(entity_type, entity_type)
type_mapping(entity_type) ==
    CASE entity_type = health_facility -> health_facility
      [] entity_type = water_source -> water_source
      [] entity_type = location -> location
      [] entity_type = service_type -> service
      [] entity_type = request_type -> need
      [] entity_type = person -> person
      [] entity_type = sickness_type -> sickness
      [] entity_type = person_name -> person
      [] OTHER -> entity_type

\* an external (Rasa) item is a dictionary: a function whose keys are among
\* "entity", "value", "start", "end"
HasKey(ent, k) == k \in DOMAIN ent

\* ent.get(k, default)
Get(ent, k, default) == IF HasKey(ent, k) THEN ent[k] ELSE default

RECURSIVE MapExternal_EndFromStart(_, _)
\* mutant of MapExternal: a missing end defaults to the start offset
MapExternal_EndFromStart(rasa, i) ==
    IF i > Len(rasa) THEN <<>>
    ELSE LET ent == rasa[i]
         IN  (IF HasKey(ent, "entity") /\ HasKey(ent, "value")
              THEN << [type |-> type_mapping(ent["entity"]),
                       value |-> ent["value"],
                       start |-> Get(ent, "start", 0),
                       end |-> Get(ent, "end", Get(ent, "start", 0))] >>
              ELSE <<>>)
             \o MapExternal_EndFromStart(rasa, i + 1)

RECURSIVE MapExternal(_, _)
\* the loop over rasa_entities from index i: the entities appended
MapExternal(rasa, i) ==
    IF i > Len(rasa) THEN <<>>
    ELSE LET ent == rasa[i]
         IN  (IF HasKey(ent, "entity") /\ HasKey(ent, "value")
              THEN << [type |-> type_mapping(ent["entity"]),
                       value |-> ent["value"],
                       start |-> Get(ent, "start", 0),
                       end |-> Get(ent, "end", Len(ent["value"]))] >>
              ELSE <<>>)
             \o MapExternal(rasa, i + 1)

\* the keyword table, in dictionary order
patterns ==
    << [type |-> camp, keywords |-> <<
          <<"c","a","m","p">>, <<"s","i","t","e">>, <<"k","a","m","b","i">>, <<"s","e","t","t","l","e","m","e","n","t">> >>],
       [type |-> health_facility, keywords |-> <<
          <<"h","o","s","p","i","t","a","l">>, <<"c","l","i","n","i","c">>, <<"d","i","s","p","e","n","s","a","r","y">>, <<"h","e","a","l","t","h"," ","c","e","n","t","e","r">>,
          <<"h","e","a","l","t","h"," ","c","e","n","t","r","e">>, <<"a","f","y","a">>, <<"h","o","s","p","i","t","a","l","i">>, <<"k","l","i","n","i","k","i">> >>],
       [type |-> water_source, keywords |-> <<
          <<"w","a","t","e","r">>, <<"s","o","u","r","c","e">>, <<"m","a","j","i">>, <<"s","t","r","e","a","m">>, <<"w","e","l","l">>,
          <<"b","o","r","e","h","o","l","e">>, <<"m","a","y","i">>, <<"m","a","j","i","i">>, <<"r","o","b","i","n","e","t">>, <<"r","o","b","i","n","e","t","s">>,
          <<"k","i","s","i","m","a">> >>],
       [type |-> location, keywords |-> <<
          <<"g","o","m","a">>, <<"n","y","i","r","a","g","o","n","g","o">>, <<"r","u","t","s","h","u","r","u">>, <<"b","u","l","e","n","g","o">>,
          <<"k","a","r","i","s","i","m","b","i">>, <<"m","a","s","i","s","i">>, <<"w","a","p","i">>, <<"f","a","s","i">>, <<"k","a","m","b","i">> >>],
       [type |-> organization, keywords |-> <<
          <<"u","n","h","c","r">>, <<"u","n","i","c","e","f">>, <<"w","f","p">>, <<"w","h","o">>, <<"m","s","f">>, <<"i","c","r","c">>,
          <<"n","g","o">>, <<"v","i","o","n","g","o","z","i">> >>],
       [type |-> service, keywords |-> <<
          <<"e","d","u","c","a","t","i","o","n">>, <<"p","r","o","t","e","c","t","i","o","n">>, <<"d","i","s","t","r","i","b","u","t","i","o","n">>, <<"v","a","c","c","i","n","a","t","i","o","n">>,
          <<"t","r","e","a","t","m","e","n","t">>, <<"a","s","s","i","s","t","a","n","c","e">>, <<"t","u","n","z","i","w","a">>, <<"t","u","n","z","a">>,
          <<"t","u","n","z","a","k","a">>, <<"z","a","l","i","s","h","a">>, <<"d","a","w","a">>, <<"n","d","u","i">>, <<"s","h","o","t","e","y","a">>,
          <<"p","o","k","e","y","a">>, <<"k","a","m","a","t","a">> >>],
       [type |-> need, keywords |-> <<
          <<"f","o","o","d">>, <<"s","h","e","l","t","e","r">>, <<"m","e","d","i","c","i","n","e">>, <<"s","e","c","u","r","i","t","y">>, <<"e","d","u","c","a","t","i","o","n">>,
          <<"c","h","a","k","u","l","a">>, <<"m","s","a","a","d","a">>, <<"m","a","y","i">>, <<"m","a","j","i">>, <<"d","a","w","a">>,
          <<"u","s","a","l","a","m","a">>, <<"h","e","m","a">>, <<"m","a","s","o","m","o">>, <<"k","u","t","u","n","z","i","w","a">>, <<"b","l","a","n","k","e","t","i">>,
          <<"s","a","b","u","n","i">>, <<"n","a","f","a","s","i">>, <<"p","e","s","a">> >>],
       [type |-> person, keywords |-> <<
          <<"w","a","t","o","t","o">>, <<"m","t","u">>, <<"w","a","k","i","m","b","i","z","i">>, <<"w","a","t","u">>, <<"b","a","t","u">>,
          <<"b","a","k","i","m","b","i","z","i">>, <<"f","a","m","i","l","i","a">>, <<"m","t","o","t","o">> >>],
       [type |-> sickness_type, keywords |-> <<
          <<"m","a","l","a","r","i","a">>, <<"m","a","l","a","l","i">>, <<"u","k","i","m","w","i">>, <<"h","o","m","a">> >>] >>

\* str.rfind(sub, start, end): highest index i, start <= i and
\* i + len(sub) <= end, where sub occurs, else -1
rfind(s, sub, start, end) ==
    LET hits == { i \in start..(end - Len(sub)) : StartsAt(s, sub, i) }
    IN  IF hits = {} THEN -1
        ELSE CHOOSE i \in hits : \A j \in hits : i >= j

\* mutant of MatchKeyword: the entity is the keyword's own span, not the
\* whole word around it
MatchKeyword_KeywordSpan(txt, entity_type, keyword) ==
    LET text_lower == lower(txt)
    IN  IF contains(text_lower, keyword)
        THEN LET pos == find(text_lower, keyword, 0)
             IN  << [type |-> entity_type,
                     value |-> Slice(txt, pos, pos + Len(keyword)),
                     start |-> pos, end |-> pos + Len(keyword)] >>
        ELSE <<>>

\* mutant of MatchKeyword: the word around the keyword's last occurrence
MatchKeyword_LastOccurrence(txt, entity_type, keyword) ==
    LET text_lower == lower(txt)
    IN  IF contains(text_lower, keyword)
        THEN LET pos == rfind(text_lower, keyword, 0, Len(text_lower))
                 left == rfind(text_lower, <<" ">>, 0, pos) + 1
                 start == IF left > 0 THEN left ELSE 0
                 right == find(text_lower, <<" ">>, pos + Len(keyword))
                 end == IF right = -1 THEN Len(text_lower) ELSE right
             IN  << [type |-> entity_type, value |-> Slice(txt, start, end),
                     start |-> start, end |-> end] >>
        ELSE <<>>

\* the body of the keyword loop for one keyword: the entity appended, if any
MatchKeyword(txt, entity_type, keyword) ==
    LET text_lower == lower(txt)
    IN  IF contains(text_lower, keyword)
        THEN LET pos == find(text_lower, keyword, 0)
                 left == rfind(text_lower, <<" ">>, 0, pos) + 1
                 start == IF left > 0 THEN left ELSE 0
                 right == find(text_lower, <<" ">>, pos + Len(keyword))
                 end == IF right = -1 THEN Len(text_lower) ELSE right
             IN  << [type |-> entity_type, value |-> Slice(txt, start, end),
                     start |-> start, end |-> end] >>
        ELSE <<>>

RECURSIVE MatchKeywords(_, _, _, _)
\* the inner loop over the keywords of one entity type, from index j
MatchKeywords(txt, entity_type, keywords, j) ==
    IF j > Len(keywords) THEN <<>>
    ELSE MatchKeyword(txt, entity_type, keywords[j])
         \o MatchKeywords(txt, entity_type, keywords, j + 1)

RECURSIVE MatchPatterns(_, _)
\* the outer loop over patterns.items(), from index k
MatchPatterns(txt, k) ==
    IF k > Len(patterns) THEN <<>>
    ELSE MatchKeywords(txt, patterns[k].type, patterns[k].keywords, 1)
         \o MatchPatterns(txt, k + 1)

\* the fallback path
FallbackEntities(txt) == MatchPatterns(txt, 1)

\* the optional argument rasa_entities: None, or a list of items
NoEntities == [given |-> FALSE, items |-> <<>>]
Given(items) == [given |-> TRUE, items |-> items]

\* recognize_entities(text, rasa_entities=...)
recognize_entities(txt, rasa) ==
    LET ents == IF rasa.given /\ Len(rasa.items) > 0
                THEN MapExternal(rasa.items, 1)
                ELSE <<>>
    IN  IF ents # <<>> THEN ents ELSE FallbackEntities(txt)

---------------------------------------------------------------------------
(* ontology_population.py: update_triple_store                             *)

\* what the library calls of one update_triple_store call can do:
\* graph.serialize raises (outside the try block); or requests.post raises; or
\* requests.post returns a response with a status code
StatusCodes == 100..599

StoreReplies ==
    { [kind |-> "serialize_exception", code |-> 0],
      [kind |-> "exception", code |-> 0] }
        \cup { [kind |-> "status", code |-> c] : c \in StatusCodes }

\* how a call ends: it returns a value, or an exception leaves it
Returns(v) == [raised |-> FALSE, value |-> v]
Propagates == [raised |-> TRUE, value |-> FALSE]

\* the status codes the code takes for success
SuccessCodes == { 200, 201 }

\* mutant of Submits: an empty graph is submitted too
Submits_EmptyToo(g, reply) == reply.kind # "serialize_exception"

\* whether update_triple_store(g) reaches requests.post: the graph is not
\* empty and graph.serialize has returned
Submits(g, reply) == g # {} /\ reply.kind # "serialize_exception"

\* how update_triple_store(g) ends when the library calls do `reply`
update_triple_store(g, reply) ==
    IF g = {} THEN Returns(FALSE)
    ELSE IF reply.kind = "serialize_exception" THEN Propagates
    ELSE IF reply.kind = "exception" THEN Returns(FALSE)
    ELSE Returns(reply.code \in SuccessCodes)

---------------------------------------------------------------------------
(* Entities the linker and the mapper are exercised on.                    *)

Entity(t, v) == [type |-> t, value |-> v, start |-> 0, end |-> Len(v)]

hospitali == <<"h","o","s","p","i","t","a","l","i">>

\* facilities and locations, for the cross product of one rule
CrossEntities ==
    { Entity(health_facility, hospitali), Entity(health_facility, <<"k","l","i","n","i","k","i">>),
      Entity(location, goma), Entity(location, <<"m","a","s","i","s","i">>),
      Entity(location, <<"b","u","l","e","n","g","o">>), Entity(location, <<"G","o","m","a">>) }

\* one entity of every type the rules and the class table name, and one of
\* a type they do not name
RuleEntities ==
    { Entity(health_facility, hospitali), Entity(location, goma),
      Entity(camp, <<"k","a","m","b","i">>), Entity(organization, <<"u","n","i","c","e","f">>),
      Entity(service, <<"d","a","w","a">>), Entity(service_type, <<"c","h","a","n","j","o">>),
      Entity(sickness_type, <<"m","a","l","a","r","i","a">>), Entity(person, <<"w","a","t","o","t","o">>),
      Entity(need, <<"c","h","a","k","u","l","a">>), Entity(sickness, <<"h","o","m","a">>) }

\* entities whose node URIs coincide: values differing in case only, and a
\* type that is a prefix of another type
GraphEntities ==
    { Entity(location, <<"G","o","m","a">>), Entity(location, goma),
      Entity(health_facility, hospitali),
      Entity(service, <<"t","y","p","e","_","x">>), Entity(service_type, <<"x">>) }

\* the sequences of at most n elements of S
SeqsUpTo(S, n) == UNION { [1..k -> S] : k \in 0..n }

LinkBatches == SeqsUpTo(CrossEntities, MaxBatch) \cup SeqsUpTo(RuleEntities, MaxRuleBatch)

---------------------------------------------------------------------------
(* Specification SpecStore: one update_triple_store call.                  *)

InitStore ==
    /\ pc = "sync"
    /\ graph \in { {} } \cup { entity_to_rdf(e, {}) : e \in RuleEntities }
    /\ batch = <<>> /\ calls = 0 /\ uri = None
    /\ IdleStore
    /\ IdleBuild /\ IdleRecog /\ IdleProcess /\ IdleFormat
    /\ IdleCost

\* update_triple_store(graph), requests.post answering with reply
UpdateTripleStore(reply) ==
    /\ pc = "sync"
    /\ result' = update_triple_store(graph, reply)
    /\ store_reply' = IF Submits(graph, reply) THEN reply ELSE store_reply
    /\ posts' = IF Submits(graph, reply) THEN posts + 1 ELSE posts
    /\ pc' = "synced"
    /\ UNCHANGED <<buildVars, recogVars, graphVars, processVars, formatVars>>
    /\ UNCHANGED costVars

NextStore == \E reply \in StoreReplies : UpdateTripleStore(reply)

SpecStore == InitStore /\ [][NextStore]_vars

\* C3: with a non-empty graph, update_triple_store returns True exactly when
\* the store answered with a status from 200 to 299.
C3_TrueIffAny2xx ==
    (pc = "synced" /\ graph # {} /\ posts = 1) =>
        (result = Returns(TRUE) <=>
            (store_reply.kind = "status" /\ store_reply.code \in 200..299))

---------------------------------------------------------------------------
(* Specification SpecLink: one link_entities call on an empty graph.       *)

InitLink ==
    /\ pc = "link"
    /\ batch \in LinkBatches
    /\ graph = {} /\ calls = 0 /\ uri = None
    /\ IdleBuild /\ IdleRecog /\ IdleProcess /\ IdleStore /\ IdleFormat
    /\ IdleCost

LinkEntities ==
    /\ pc = "link"
    /\ graph' = link_entities(batch, graph)
    /\ calls' = calls + 1
    /\ pc' = "linked"
    /\ UNCHANGED <<batch, uri, buildVars, recogVars, processVars, storeVars, formatVars>>
    /\ UNCHANGED costVars

NextLink == LinkEntities

SpecLink == InitLink /\ [][NextLink]_vars

\* the entities of the batch that have type t, as a set
BatchOfType(t) == { e \in Range(batch) : e.type = t }

\* the node URI of an entity of type t with value v, spelled out:
\* the type, "_", the value lower-cased with " " and "-" turned into "_"
NodeOf(e) == <<"uri", e.type \o <<"_">> \o
                 [i \in 1..Len(e.value) |->
                     IF e.value[i] \in {" ", "-"} THEN "_" ELSE LowerChar(e.value[i])]>>

Triples(pred) == { t \in graph : t[2] = pred }

\* the triples with this predicate run from a node of subjType to a node of
\* objType, one for every such pair of the batch
Directed(pred, subjType, objType) ==
    Triples(pred) = { <<NodeOf(a), pred, NodeOf(b)>> :
                         a \in BatchOfType(subjType), b \in BatchOfType(objType) }

\* C5 as stated: the triples of the rules (service_type, health_facility),
\* (sickness_type, health_facility) and (need, person) run from the node of
\* the first type to the node of the second: the facility is the object of
\* providesService and treats, the person the object of hasNeed.
C5_SourceToTarget ==
    pc = "linked" =>
        /\ Directed("humanitarian:treats", sickness_type, health_facility)
        /\ Directed("humanitarian:hasNeed", need, person)
        /\ Triples("humanitarian:providesService") =
              { <<NodeOf(a), "humanitarian:providesService", NodeOf(b)>> :
                    a \in BatchOfType(service_type), b \in BatchOfType(health_facility) }
              \cup
              { <<NodeOf(a), "humanitarian:providesService", NodeOf(b)>> :
                    a \in BatchOfType(organization), b \in BatchOfType(service) }

\* C5 amended: the triples of these three rules run the other way: the
\* facility is the subject of treats and of providesService, the person is the
\* subject of hasNeed; the sickness, service type and need nodes are objects.
C5_TargetToSource ==
    pc = "linked" =>
        /\ Directed("humanitarian:treats", health_facility, sickness_type)
        /\ Directed("humanitarian:hasNeed", person, need)
        /\ Triples("humanitarian:providesService") =
              { <<NodeOf(a), "humanitarian:providesService", NodeOf(b)>> :
                    a \in BatchOfType(health_facility), b \in BatchOfType(service_type) }
              \cup
              { <<NodeOf(a), "humanitarian:providesService", NodeOf(b)>> :
                    a \in BatchOfType(organization), b \in BatchOfType(service) }

\* a batch of a sickness, a service type and a facility has been linked
C5_Witness ==
    /\ pc = "linked"
    /\ batch = << Entity(sickness_type, <<"m","a","l","a","r","i","a">>), Entity(service_type, <<"c","h","a","n","j","o">>),
                  Entity(health_facility, hospitali) >>
    /\ <<URIRef(<<"h","e","a","l","t","h","_","f","a","c","i","l","i","t","y","_","h","o","s","p","i","t","a","l","i">>), "humanitarian:treats",
         URIRef(<<"s","i","c","k","n","e","s","s","_","t","y","p","e","_","m","a","l","a","r","i","a">>)>> \in graph
    /\ <<URIRef(<<"h","e","a","l","t","h","_","f","a","c","i","l","i","t","y","_","h","o","s","p","i","t","a","l","i">>), "humanitarian:providesService",
         URIRef(<<"s","e","r","v","i","c","e","_","t","y","p","e","_","c","h","a","n","j","o">>)>> \in graph

\* the batch holds 2 health_facility entities and 3 location entities
TwoByThree ==
    /\ Len(batch) = 5
    /\ Cardinality({ i \in 1..5 : batch[i].type = health_facility }) = 2
    /\ Cardinality({ i \in 1..5 : batch[i].type = location }) = 3

\* the graph a 2-by-3 batch must give, from the set of its entities alone:
\* the node triples of each entity and one hasLocation triple per pair
CrossGraph ==
    UNION { { <<NodeOf(e), RDF_type,
                URIRef(IF e.type = location THEN <<"L","o","c","a","t","i","o","n">> ELSE <<"H","e","a","l","t","h","F","a","c","i","l","i","t","y">>)>>,
              <<NodeOf(e), RDFS_label, Literal(e.value)>>,
              <<NodeOf(e), ns_name, Literal(e.value)>> } : e \in Range(batch) }
    \cup { <<NodeOf(f), "humanitarian:hasLocation", NodeOf(l)>> :
             f \in BatchOfType(health_facility), l \in BatchOfType(location) }

\* C9 as stated: any batch of 2 facilities and 3 locations gives exactly 6
\* hasLocation triples, and a triple set that depends on the set of entities
\* only (so it is the same for every ordering of the batch).
C9_AlwaysSixTriples ==
    (pc = "linked" /\ TwoByThree) =>
        /\ Cardinality(Triples("humanitarian:hasLocation")) = 6
        /\ graph = CrossGraph

\* the five entities have five different node URIs
DistinctNodes == Cardinality({ NodeOf(batch[i]) : i \in 1..Len(batch) }) = Len(batch)

\* C9 amended: a batch of 2 facilities and 3 locations with five different
\* node URIs gives exactly 6 hasLocation triples and 15 node triples; for any
\* batch of 2 facilities and 3 locations the triple set depends on the set of
\* entities only, so it is the same for every ordering of the batch.
C9_SixTriplesWhenDistinct ==
    (pc = "linked" /\ TwoByThree) =>
        /\ graph = CrossGraph
        /\ DistinctNodes =>
              /\ Cardinality(Triples("humanitarian:hasLocation")) = 6
              /\ Cardinality(graph) = 6 + 15

\* a 2-by-3 batch with distinct nodes, locations first, has been linked
C9_Witness ==
    /\ pc = "linked"
    /\ TwoByThree
    /\ DistinctNodes
    /\ batch[1].type = location /\ batch[2].type = health_facility
    /\ Cardinality(Triples("humanitarian:hasLocation")) = 6

---------------------------------------------------------------------------
(* Specification SpecGraph: mapper and linker calls in a row on one graph. *)

InitGraph ==
    /\ pc = "populate"
    /\ graph = {} /\ batch = <<>> /\ calls = 0 /\ uri = None
    /\ IdleBuild /\ IdleRecog /\ IdleProcess /\ IdleStore /\ IdleFormat
    /\ IdleCost

\* entity_to_rdf(e, graph)
MapEntity(e) ==
    /\ pc = "populate"
    /\ calls < MaxCalls
    /\ graph' = entity_to_rdf(e, graph)
    /\ uri' = EntityURI(e)
    /\ calls' = calls + 1
    /\ UNCHANGED <<pc, batch, buildVars, recogVars, processVars, storeVars, formatVars>>
    /\ UNCHANGED costVars

\* link_entities(b, graph)
LinkBatch(b) ==
    /\ pc = "populate"
    /\ calls < MaxCalls
    /\ graph' = link_entities(b, graph)
    /\ calls' = calls + 1
    /\ UNCHANGED <<pc, batch, uri, buildVars, recogVars, processVars, storeVars, formatVars>>
    /\ UNCHANGED costVars

\* what the library calls do in the update_triple_store calls made here
GraphReplies ==
    { r \in StoreReplies : r.kind # "status" \/ r.code \in { 200, 500 } }

\* update_triple_store(graph)
SyncGraph(reply) ==
    /\ pc = "populate"
    /\ calls < MaxCalls
    /\ result' = update_triple_store(graph, reply)
    /\ store_reply' = IF Submits(graph, reply) THEN reply ELSE store_reply
    /\ posts' = IF Submits(graph, reply) THEN posts + 1 ELSE posts
    /\ calls' = calls + 1
    /\ UNCHANGED <<pc, graph, batch, uri, buildVars, recogVars, processVars, formatVars>>
    /\ UNCHANGED costVars

NextGraph ==
    \/ \E e \in GraphEntities : MapEntity(e)
    \/ \E b \in SeqsUpTo(GraphEntities, MaxSeqBatch) : LinkBatch(b)
    \/ \E reply \in GraphReplies : SyncGraph(reply)

SpecGraph == InitGraph /\ [][NextGraph]_vars

\* the nodes of the graph: the subjects of its triples
Nodes == { t[1] : t \in graph }

\* the objects node n has for predicate p
ObjectsOf(n, p) == { t[3] : t \in { u \in graph : u[1] = n /\ u[2] = p } }

\* C7: every node of the graph carries exactly one type triple, one label
\* triple and one name triple.
C7_OneTypeLabelName ==
    \A n \in Nodes :
        /\ Cardinality(ObjectsOf(n, RDF_type)) = 1
        /\ Cardinality(ObjectsOf(n, RDFS_label)) = 1
        /\ Cardinality(ObjectsOf(n, ns_name)) = 1

---------------------------------------------------------------------------
(* Specification SpecRecog: one recognize_entities call.                   *)

\* the example sentence 'hospitali iko karibu na goma'
ExampleText == hospitali \o <<" ","i","k","o"," ","k","a","r","i","b","u"," ","n","a"," ">> \o goma

\* a keyword at two positions, and a keyword followed by a tab
TwiceText == <<"g","o","m","a"," ","n","a"," ","G","o","m","a">>
TabText == <<"g","o","m","a","\t","n","a">>

RecogTexts == { <<>>, ExampleText, <<"G","o","m","a">>, TwiceText, TabText }

\* external items: with and without offsets, with an unmapped type and an
\* empty value, and without the entity or the value key
ExternalItems ==
    { [entity |-> health_facility, value |-> hospitali],
      [entity |-> sickness_type, value |-> <<"m","a","l","a","r","i","a">>, start |-> 3, end |-> 10],
      [entity |-> request_type, value |-> <<"c","h","a","k","u","l","a">>, start |-> 5],
      [entity |-> <<"c","u","s","t","o","m">>, value |-> <<>>, end |-> 2],
      [value |-> goma],
      [entity |-> location] }

InitRecog ==
    /\ pc = "recognize"
    /\ text \in RecogTexts
    /\ rasa_entities \in { NoEntities } \cup { Given(l) : l \in SeqsUpTo(ExternalItems, MaxExternal) }
    /\ entities = <<>>
    /\ IdleBuild /\ IdleGraph /\ IdleProcess /\ IdleStore /\ IdleFormat
    /\ IdleCost

Recognize ==
    /\ pc = "recognize"
    /\ entities' = recognize_entities(text, rasa_entities)
    /\ pc' = "recognized"
    /\ UNCHANGED <<text, rasa_entities>>
    /\ UNCHANGED <<buildVars, graphVars, processVars, storeVars, formatVars>>
    /\ UNCHANGED costVars

NextRecog == Recognize

SpecRecog == InitRecog /\ [][NextRecog]_vars

\* the alias table of the external path
AliasOf(t) ==
    IF t = service_type THEN service
    ELSE IF t = request_type THEN need
    ELSE IF t = sickness_type THEN sickness
    ELSE IF t = person_name THEN person
    ELSE t

\* the entity an external item with both keys stands for
ExternalEntity(ent) ==
    [type |-> AliasOf(ent["entity"]),
     value |-> ent["value"],
     start |-> IF "start" \in DOMAIN ent THEN ent["start"] ELSE 0,
     end |-> IF "end" \in DOMAIN ent THEN ent["end"] ELSE Len(ent["value"])]

ExternalGiven == rasa_entities.given /\ rasa_entities.items # <<>>

UsableItems ==
    { i \in 1..Len(rasa_entities.items) :
          {"entity", "value"} \subseteq DOMAIN rasa_entities.items[i] }

---------------------------------------------------------------------------
(* Specification SpecProcess: process_hdx_data_for_ontology on the         *)
(* sentences extract_and_preprocess_hdx_data returned.                     *)

ProcessTexts ==
    { ExampleText,
      <<"k","l","i","n","i","k","i"," ","y","a"," ","G","o","m","a">>,
      <<"w","a","t","o","t","o"," ","w","a"," ","k","a","m","b","i"," ","y","a"," ","b","u","l","e","n","g","o">>,
      <<"h","a","b","a","r","i">>,
      <<"k","l","i","n","i","k","i">>,
      <<"G","o","m","a">> }

InitProcess ==
    /\ pc = "extracted"
    /\ sentences \in SeqsUpTo(ProcessTexts, MaxSentences)
    /\ idx = 0 /\ graph_ref = <<>>
    /\ graph = {} /\ batch = <<>> /\ calls = 0 /\ uri = None
    /\ IdleStore
    /\ IdleBuild /\ IdleRecog /\ IdleFormat
    /\ IdleCost

\* mutant of ProcessNoSentences: the empty graph is still handed to the store
ProcessNoSentences_CallsStore ==
    /\ pc = "extracted"
    /\ sentences = <<>>
    /\ result' = update_triple_store({}, [kind |-> "exception", code |-> 0])
    /\ calls' = calls + 1
    /\ pc' = "returned"
    /\ UNCHANGED <<store_reply, posts, graph, batch, uri, processVars>>
    /\ UNCHANGED <<buildVars, recogVars, formatVars>>
    /\ UNCHANGED costVars

\* `if not sentences: return False`
ProcessNoSentences ==
    /\ pc = "extracted"
    /\ sentences = <<>>
    /\ result' = Returns(FALSE)
    /\ pc' = "returned"
    /\ UNCHANGED <<store_reply, posts, graphVars, processVars>>
    /\ UNCHANGED <<buildVars, recogVars, formatVars>>
    /\ UNCHANGED costVars

\* graph = initialize_graph()
ProcessInitGraph ==
    /\ pc = "extracted"
    /\ sentences # <<>>
    /\ graph' = {}
    /\ idx' = 1
    /\ pc' = "sentences"
    /\ UNCHANGED <<batch, calls, uri, sentences, graph_ref, storeVars>>
    /\ UNCHANGED <<buildVars, recogVars, formatVars>>
    /\ UNCHANGED costVars

RECURSIVE MapAll(_, _, _)
\* `for entity in entities: entity_to_rdf(entity, graph)`, from index i
MapAll(ents, g, i) ==
    IF i > Len(ents) THEN g ELSE MapAll(ents, entity_to_rdf(ents[i], g), i + 1)

RECURSIVE EntitiesUpTo(_, _)
\* the entities of the first n sentences, in one list
EntitiesUpTo(ss, n) ==
    IF n = 0 THEN <<>>
    ELSE EntitiesUpTo(ss, n - 1) \o recognize_entities(ss[n], NoEntities)

\* mutant of ProcessSentence: the entities of the sentences seen so far are
\* linked as one batch
ProcessSentence_OneBatch ==
    /\ pc = "sentences"
    /\ idx <= Len(sentences)
    /\ LET ents == recognize_entities(sentences[idx], NoEntities)
           seen == EntitiesUpTo(sentences, idx)
       IN  /\ graph' = IF ents # <<>>
                       THEN link_entities(seen, MapAll(ents, graph, 1))
                       ELSE graph
           /\ batch' = ents
    /\ idx' = idx + 1
    /\ UNCHANGED <<pc, calls, uri, sentences, graph_ref, storeVars>>
    /\ UNCHANGED <<buildVars, recogVars, formatVars>>
    /\ UNCHANGED costVars

\* one iteration of `for sentence in sentences`
ProcessSentence ==
    /\ pc = "sentences"
    /\ idx <= Len(sentences)
    /\ LET ents == recognize_entities(sentences[idx], NoEntities)
       IN  /\ graph' = IF ents # <<>>
                       THEN link_entities(ents, MapAll(ents, graph, 1))
                       ELSE graph
           /\ batch' = ents
    /\ idx' = idx + 1
    /\ UNCHANGED <<pc, calls, uri, sentences, graph_ref, storeVars>>
    /\ UNCHANGED <<buildVars, recogVars, formatVars>>
    /\ UNCHANGED costVars

\* `success = update_triple_store(graph); return success`
ProcessSync(reply) ==
    /\ pc = "sentences"
    /\ idx > Len(sentences)
    /\ result' = update_triple_store(graph, reply)
    /\ store_reply' = IF Submits(graph, reply) THEN reply ELSE store_reply
    /\ posts' = IF Submits(graph, reply) THEN posts + 1 ELSE posts
    /\ calls' = calls + 1
    /\ pc' = "returned"
    /\ UNCHANGED <<graph, batch, uri, processVars>>
    /\ UNCHANGED <<buildVars, recogVars, formatVars>>
    /\ UNCHANGED costVars

NextProcess ==
    \/ ProcessNoSentences
    \/ ProcessInitGraph
    \/ ProcessSentence
    \/ \E reply \in GraphReplies : ProcessSync(reply)

SpecProcess == InitProcess /\ [][NextProcess]_vars

\* C8: recognizing 'hospitali iko karibu na goma' by pattern matching, then
\* mapping and linking the batch, leaves exactly one hasLocation triple, from
\* the node of the facility 'hospitali' to the node of the location 'goma'.
C8_ExampleOneHasLocation ==
    (sentences = <<ExampleText>> /\ idx = 2) =>
        /\ \E i \in 1..Len(batch) :
              batch[i].type = health_facility /\ batch[i].value = hospitali
        /\ \E i \in 1..Len(batch) :
              batch[i].type = location /\ batch[i].value = goma
        /\ Triples("humanitarian:hasLocation") =
              { <<URIRef(<<"h","e","a","l","t","h","_","f","a","c","i","l","i","t","y","_","h","o","s","p","i","t","a","l","i">>), "humanitarian:hasLocation",
                  URIRef(<<"l","o","c","a","t","i","o","n","_","g","o","m","a">>)>> }

\* the example sentence has been recognized, mapped and linked
C8_Witness ==
    /\ sentences = <<ExampleText>>
    /\ idx = 2
    /\ Len(batch) = 3
    /\ <<URIRef(<<"h","e","a","l","t","h","_","f","a","c","i","l","i","t","y","_","h","o","s","p","i","t","a","l","i">>), "humanitarian:hasLocation",
         URIRef(<<"l","o","c","a","t","i","o","n","_","g","o","m","a">>)>> \in graph

---------------------------------------------------------------------------
(* query_builder.py: format_query_results                                  *)

\* Python values of a results object.  Every value is a record of one shape:
\* a dictionary keeps its keys in insertion order in `keys` and their values
\* in `vals`, a list keeps its elements in `vals`, a string its text in `str`.
PyNone == [tag |-> "None", keys |-> <<>>, vals |-> <<>>, str |-> ""]
PyStr(t) == [tag |-> "str", keys |-> <<>>, vals |-> <<>>, str |-> t]
PyList(elems) == [tag |-> "list", keys |-> <<>>, vals |-> elems, str |-> ""]
PyDict(ks, vs) == [tag |-> "dict", keys |-> ks, vals |-> vs, str |-> ""]

\* bool(v)
Truth(v) ==
    CASE v.tag = "None" -> FALSE
      [] v.tag = "str" -> v.str # ""
      [] OTHER -> v.vals # <<>>

\* v is a dictionary that has key k: what `k in v` and v[k] need
HasItem(v, k) == v.tag = "dict" /\ \E i \in 1..Len(v.keys) : v.keys[i] = k

\* v[k] for a dictionary v that has key k
Item(v, k) == v.vals[CHOOSE i \in 1..Len(v.keys) : v.keys[i] = k]

\* what the call gives back: a string, as its lines, each a sequence of the
\* pieces concatenated into it; or an exception
Returned(ls) == [raised |-> FALSE, lines |-> ls]
Raised == [raised |-> TRUE, lines |-> <<>>]

\* the no-results messages
NoResultsMessage(name) ==
    CASE name = "query_health_facilities_swa" ->
            "Samahani, hakuna vituo vya afya vilivyopatikana."
      [] name = "query_water_sources_swa" ->
            "Samahani, hakuna vyanzo vya maji vilivyopatikana."
      [] name = "query_camps_swa" ->
            "Samahani, hakuna kambi za wakimbizi zilizopatikana."
      [] name = "submit_aid_request_swa" ->
            "Samahani, hakuna mashirika yanayotoa huduma hiyo yaliyopatikana."
      [] OTHER -> "Samahani, hakuna majibu yaliyopatikana."

\* the header line of each branch
Header(name) ==
    CASE name = "query_health_facilities_swa" -> "Hii ni vituo vya afya vilivyopo:\n"
      [] name = "query_water_sources_swa" -> "Hii ni vyanzo vya maji vilivyopo:\n"
      [] name = "query_camps_swa" -> "Hii ni kambi za wakimbizi ziliopo:\n"
      [] name = "submit_aid_request_swa" -> "Mashirika yanayotoa huduma hiyo:\n"
      [] OTHER -> "Majibu yaliyopatikana:\n"

BuiltinIntents ==
    { "query_health_facilities_swa", "query_water_sources_swa",
      "query_camps_swa", "submit_aid_request_swa" }

\* binding.get(field, {}): the entry of the field, or an empty dictionary
FieldEntry(binding, field) ==
    IF HasItem(binding, field) THEN Item(binding, field) ELSE PyDict(<<>>, <<>>)

\* binding.get(field, {}).get('value', 'Unknown') raises when the entry is
\* not a dictionary
FieldRaises(binding, field) == FieldEntry(binding, field).tag # "dict"

\* mutant of FieldValue: a missing value is rendered as the empty string
FieldValue_Blank(binding, field) ==
    LET entry == FieldEntry(binding, field)
    IN  IF HasItem(entry, "value") THEN Item(entry, "value").str ELSE ""

\* binding.get(field, {}).get('value', 'Unknown')
FieldValue(binding, field) ==
    LET entry == FieldEntry(binding, field)
    IN  IF HasItem(entry, "value") THEN Item(entry, "value").str ELSE "Unknown"

\* the fields a built-in branch reads from a row, in the order it reads them
FieldsRead(name) ==
    CASE name = "query_health_facilities_swa" -> <<"facilityName", "locName">>
      [] name = "query_water_sources_swa" -> <<"sourceName", "locName", "status">>
      [] name = "query_camps_swa" -> <<"campName", "locName", "capacity">>
      [] name = "submit_aid_request_swa" -> <<"orgName", "serviceName", "locName">>

\* the line a built-in branch appends for one row
RowLine(name, b) ==
    CASE name = "query_health_facilities_swa" ->
            <<"- ", FieldValue(b, "facilityName"), " (", FieldValue(b, "locName"), ")\n">>
      [] name = "query_water_sources_swa" ->
            <<"- ", FieldValue(b, "sourceName"), " (", FieldValue(b, "locName"),
              ") - ", FieldValue(b, "status"), "\n">>
      [] name = "query_camps_swa" ->
            <<"- ", FieldValue(b, "campName"), " (", FieldValue(b, "locName"),
              ") - Uwezo: ", FieldValue(b, "capacity"), "\n">>
      [] name = "submit_aid_request_swa" ->
            <<"- ", FieldValue(b, "orgName"), " (", FieldValue(b, "locName"),
              ") - ", FieldValue(b, "serviceName"), "\n">>

\* a built-in branch raises on a row that is no dictionary or has a field
\* entry that is no dictionary
RowRaises(name, b) ==
    \/ b.tag # "dict"
    \/ \E i \in 1..Len(FieldsRead(name)) : FieldRaises(b, FieldsRead(name)[i])

\* the generic branch raises on a row that is no dictionary or has an entry
\* without a 'value' key (value['value'])
GenericRowRaises(b) ==
    \/ b.tag # "dict"
    \/ \E i \in 1..Len(b.vals) : ~HasItem(b.vals[i], "value")

\* a decimal number below 10 as text
Digits(n) == CASE n = 0 -> "0" [] n = 1 -> "1" [] n = 2 -> "2" [] n = 3 -> "3"
               [] n = 4 -> "4" [] n = 5 -> "5" [] n = 6 -> "6" [] n = 7 -> "7"
               [] n = 8 -> "8" [] n = 9 -> "9"

\* the lines the generic branch appends for row number i (from 1)
GenericRowLines(b, i) ==
    << <<"Jibu ", Digits(i), ":\n">> >>
    \o [k \in 1..Len(b.keys) |->
           <<"  ", b.keys[k], ": ", Item(b.vals[k], "value").str, "\n">>]

RECURSIVE GenericLines(_, _)
GenericLines(bindings, i) ==
    IF i > Len(bindings) THEN <<>>
    ELSE GenericRowLines(bindings[i], i) \o GenericLines(bindings, i + 1)

\* the part after `bindings = results['results']['bindings']`
FormatRows(bindings, name) ==
    IF name \in BuiltinIntents
    THEN IF \E i \in 1..Len(bindings) : RowRaises(name, bindings[i])
         THEN Raised
         ELSE Returned(<< <<Header(name)>> >>
                       \o [i \in 1..Len(bindings) |-> RowLine(name, bindings[i])])
    ELSE IF \E i \in 1..Len(bindings) : GenericRowRaises(bindings[i])
         THEN Raised
         ELSE Returned(<< <<Header(name)>> >> \o GenericLines(bindings, 1))

\* format_query_results(results, intent).  results['results']['bindings']
\* raises unless results['results'] is a dictionary with a 'bindings' key.
format_query_results(res, name) ==
    IF ~Truth(res) \/ ~HasItem(res, "results")
    THEN Returned(<< <<NoResultsMessage(name)>> >>)
    ELSE LET inner == Item(res, "results")
         IN  IF ~HasItem(inner, "bindings") THEN Raised
             ELSE IF ~Truth(Item(inner, "bindings"))
                  THEN Returned(<< <<NoResultsMessage(name)>> >>)
                  ELSE FormatRows(Item(inner, "bindings").vals, name)

---------------------------------------------------------------------------
(* Specification SpecFormat: one format_query_results call.                *)

\* a field entry with a value, and one without the 'value' key
WithValue(t) == PyDict(<<"type", "value">>, <<PyStr("literal"), PyStr(t)>>)
WithoutValue == PyDict(<<"type">>, <<PyStr("literal")>>)

\* the variables of the rows given to a template: those its branch reads,
\* and two others for an unrecognized name
RowFields(name) == IF name \in BuiltinIntents THEN FieldsRead(name) ELSE <<"s", "o">>

\* the sub-sequence of fs at the indices in I, in order
RECURSIVE Pick(_, _, _)
Pick(fs, I, i) ==
    IF i > Len(fs) THEN <<>>
    ELSE (IF i \in I THEN <<fs[i]>> ELSE <<>>) \o Pick(fs, I, i + 1)

\* the value a field has in the rows where it has one
SampleValue(field) ==
    CASE field = "facilityName" -> "Hospitali ya Goma"
      [] field = "sourceName" -> "Kisima"
      [] field = "campName" -> "Bulengo"
      [] field = "orgName" -> "UNICEF"
      [] field = "serviceName" -> "chakula"
      [] field = "locName" -> "Goma"
      [] field = "status" -> "functional"
      [] field = "capacity" -> "500"
      [] OTHER -> "x"

\* rows: any subset of the fields present, each with or without a value
Rows(name) ==
    LET fs == RowFields(name)
    IN  { PyDict(Pick(fs, I, 1),
                 [k \in 1..Cardinality(I) |->
                     IF Pick(fs, I, 1)[k] \in V
                     THEN WithValue(SampleValue(Pick(fs, I, 1)[k]))
                     ELSE WithoutValue]) :
            I \in SUBSET (1..Len(fs)), V \in SUBSET Range(fs) }

\* the shapes of results: absent, empty, without 'results', with 'results'
\* None or without 'bindings', with no rows, with rows
ResultShapes(name) ==
    { PyNone,
      PyDict(<<>>, <<>>),
      PyDict(<<"head">>, <<PyDict(<<>>, <<>>)>>),
      PyDict(<<"results">>, <<PyNone>>),
      PyDict(<<"results">>, <<PyDict(<<>>, <<>>)>>),
      PyDict(<<"results">>, <<PyDict(<<"bindings">>, <<PyNone>>)>>) }
    \cup { PyDict(<<"head", "results">>,
                  << PyDict(<<>>, <<>>), PyDict(<<"bindings">>, <<PyList(rows)>>) >>) :
             rows \in SeqsUpTo(Rows(name), MaxRows) }

Intents == BuiltinIntents \cup { "greet" }

InitFormat ==
    /\ pc = "format"
    /\ intent \in Intents
    /\ results \in ResultShapes(intent)
    /\ response = Returned(<<>>)
    /\ IdleBuild /\ IdleRecog /\ IdleGraph /\ IdleProcess /\ IdleStore
    /\ IdleCost

FormatQueryResults ==
    /\ pc = "format"
    /\ response' = format_query_results(results, intent)
    /\ pc' = "formatted"
    /\ UNCHANGED <<results, intent>>
    /\ UNCHANGED <<buildVars, recogVars, graphVars, processVars, storeVars>>
    /\ UNCHANGED costVars

NextFormat == FormatQueryResults

SpecFormat == InitFormat /\ [][NextFormat]_vars

\* C4: format_query_results never raises, whatever the shape of results and
\* whatever the template name: it always gives back a non-empty string.
C4_NeverRaises ==
    pc = "formatted" => (~response.raised /\ response.lines # <<>>)

---------------------------------------------------------------------------
(* Substitution of supplied values (build_query, all slots supplied).      *)

\* every declared placeholder of the template has a non-empty value
AllSupplied ==
    \A n \in DeclaredNames(template) : n \in DOMAIN slots /\ Truthy(slots[n])

\* the declared names whose token starts at index i of body
TokensAt(body, i) == { n \in DeclaredNames(template) : StartsAt(body, Placeholder(n), i) }

\* the indices from i on at which a token of a declared name starts
TokenStarts(body, i) == { k \in i..(Len(body) - 1) : TokensAt(body, k) # {} }

RECURSIVE SubstituteFrom(_, _)
\* body from index i on, every token of the template replaced by the value of
\* its slot in one pass: substituted text is not looked at again
SubstituteFrom(body, i) ==
    IF TokenStarts(body, i) = {} THEN SliceFrom(body, i)
    ELSE LET k == CHOOSE k \in TokenStarts(body, i) : \A j \in TokenStarts(body, i) : k <= j
             n == CHOOSE n \in TokensAt(body, k) : TRUE
         IN  Slice(body, i, k) \o slots[n]
                 \o SubstituteFrom(body, k + Len(Placeholder(n)))

---------------------------------------------------------------------------
(* query_builder.py: get_query_for_intent                                  *)

\* mutant of get_query_for_intent: an unknown name gets the first template
get_query_for_intent_DefaultTemplate(name, s) ==
    IF name \in DOMAIN QUERY_TEMPLATES
    THEN build_query(QUERY_TEMPLATES[name], s)
    ELSE build_query(QUERY_TEMPLATES["query_health_facilities_swa"], s)

\* get_query_for_intent(intent, slots): the registry lookup, then build_query;
\* an unknown name is logged and answered with None
get_query_for_intent(name, s) ==
    IF name \in DOMAIN QUERY_TEMPLATES
    THEN build_query(QUERY_TEMPLATES[name], s)
    ELSE None

\* intent names: the keys of the registry, and names that are not keys
IntentNames ==
    DOMAIN QUERY_TEMPLATES
        \cup { "", "greet", "query_health_facilities", "QUERY_CAMPS_SWA" }

\* slot mappings over the placeholder names of the registry
LookupSlots ==
    UNION { [D -> SlotValues] : D \in SUBSET { location, request_type, camp } }

---------------------------------------------------------------------------
(* Specification SpecLookup: one get_query_for_intent call.                *)

InitLookup ==
    /\ pc = "lookup"
    /\ intent \in IntentNames
    /\ slots \in LookupSlots
    /\ template = None /\ query = None
    /\ results = None /\ response = [raised |-> FALSE, lines |-> <<>>]
    /\ IdleRecog /\ IdleGraph /\ IdleProcess /\ IdleStore
    /\ IdleCost

GetQueryForIntent ==
    /\ pc = "lookup"
    /\ query' = get_query_for_intent(intent, slots)
    /\ pc' = "looked_up"
    /\ UNCHANGED <<template, slots, intent, results, response>>
    /\ UNCHANGED <<recogVars, graphVars, processVars, storeVars>>
    /\ UNCHANGED costVars

NextLookup == GetQueryForIntent

SpecLookup == InitLookup /\ [][NextLookup]_vars

\* C12: for an intent name that is not a key of the registry,
\* get_query_for_intent returns None, whatever the slots hold.
C12_UnknownIntentGivesNone ==
    (pc = "looked_up" /\ intent \notin DOMAIN QUERY_TEMPLATES) => query = None

\* an unknown name has been looked up with a filled slot
C12_Witness ==
    /\ pc = "looked_up"
    /\ intent = "query_health_facilities"
    /\ location \in DOMAIN slots /\ slots[location] = goma
    /\ query = None

---------------------------------------------------------------------------
(* Specification SpecRepeat: two entity_to_rdf calls, or two link_entities *)
(* calls with the same batch, on a graph that may already hold triples.    *)

\* entities of the repeated calls: those whose nodes coincide, and values
\* that differ in case, spaces and hyphens only
RepeatEntities ==
    GraphEntities
        \cup { Entity(camp, <<"c","a","m","p"," ","a">>), Entity(camp, <<"C","a","m","p","-","A">>), Entity(camp, <<"k","a","m","b","i">>) }

\* what the graph may hold before the calls
StartGraphs ==
    { {} } \cup { entity_to_rdf(e, {}) : e \in RepeatEntities }
           \cup { link_entities(<<Entity(health_facility, hospitali), Entity(location, goma)>>, {}) }

RepeatBatches ==
    SeqsUpTo(RuleEntities, MaxSeqBatch) \cup SeqsUpTo(GraphEntities, MaxSeqBatch)

InitRepeat ==
    /\ \/ pc = "map_first" /\ batch \in [1..2 -> RepeatEntities]
       \/ pc = "link_first" /\ batch \in RepeatBatches
    /\ graph \in StartGraphs
    /\ calls = 0 /\ uri = None
    /\ IdleBuild /\ IdleRecog /\ IdleProcess /\ IdleStore /\ IdleFormat
    /\ IdleCost

\* uri = entity_to_rdf(batch[1], graph)
MapFirst ==
    /\ pc = "map_first"
    /\ graph' = entity_to_rdf(batch[1], graph)
    /\ uri' = EntityURI(batch[1])
    /\ calls' = calls + 1
    /\ pc' = "map_second"
    /\ UNCHANGED <<batch, buildVars, recogVars, processVars, storeVars, formatVars>>
    /\ UNCHANGED costVars

\* uri = entity_to_rdf(batch[2], graph)
MapSecond ==
    /\ pc = "map_second"
    /\ graph' = entity_to_rdf(batch[2], graph)
    /\ uri' = EntityURI(batch[2])
    /\ calls' = calls + 1
    /\ pc' = "mapped"
    /\ UNCHANGED <<batch, buildVars, recogVars, processVars, storeVars, formatVars>>
    /\ UNCHANGED costVars

\* link_entities(batch, graph)
LinkFirst ==
    /\ pc = "link_first"
    /\ graph' = link_entities(batch, graph)
    /\ calls' = calls + 1
    /\ pc' = "link_again"
    /\ UNCHANGED <<batch, uri, buildVars, recogVars, processVars, storeVars, formatVars>>
    /\ UNCHANGED costVars

\* link_entities(batch, graph), once more
LinkAgain ==
    /\ pc = "link_again"
    /\ graph' = link_entities(batch, graph)
    /\ calls' = calls + 1
    /\ pc' = "linked_twice"
    /\ UNCHANGED <<batch, uri, buildVars, recogVars, processVars, storeVars, formatVars>>
    /\ UNCHANGED costVars

NextRepeat == MapFirst \/ MapSecond \/ LinkFirst \/ LinkAgain

SpecRepeat == InitRepeat /\ [][NextRepeat]_vars

\* C13: a second entity_to_rdf call with the same entity, and a second
\* link_entities call with the same batch, leave the graph with exactly the
\* triple set the first call left.
C13_SecondCallChangesNothing ==
    [][ ((pc = "map_second" /\ batch[1] = batch[2]) \/ pc = "link_again")
            => graph' = graph ]_vars

\* a facility and a location have been linked twice on a graph that held
\* another node
C13_Witness ==
    /\ pc = "linked_twice"
    /\ calls = 2
    /\ batch = <<Entity(health_facility, hospitali), Entity(location, goma)>>
    /\ <<URIRef(<<"l","o","c","a","t","i","o","n","_","g","o","m","a">>), RDFS_label, Literal(<<"G","o","m","a">>)>> \in graph
    /\ <<URIRef(<<"h","e","a","l","t","h","_","f","a","c","i","l","i","t","y","_","h","o","s","p","i","t","a","l","i">>), "humanitarian:hasLocation",
         URIRef(<<"l","o","c","a","t","i","o","n","_","g","o","m","a">>)>> \in graph

\* a value lower-cased, with spaces and hyphens turned into underscores
Normalized(v) ==
    [i \in 1..Len(v) |-> IF v[i] \in {" ", "-"} THEN "_" ELSE LowerChar(v[i])]

\* C14: two entities of the same type whose values are equal after
\* lower-casing and replacing spaces and hyphens by underscores get the same
\* node URI from entity_to_rdf, whatever the graph holds.
C14_SameSlugSameURI ==
    [][ (/\ pc = "map_second"
         /\ batch[1].type = batch[2].type
         /\ Normalized(batch[1].value) = Normalized(batch[2].value))
            => uri' = uri ]_vars

\* 'camp a' and 'Camp-A' have been mapped on a graph that held the node
\* already, and the second call returned the node camp_camp_a
C14_Witness ==
    /\ pc = "mapped"
    /\ batch = <<Entity(camp, <<"c","a","m","p"," ","a">>), Entity(camp, <<"C","a","m","p","-","A">>)>>
    /\ uri = URIRef(<<"c","a","m","p","_","c","a","m","p","_","a">>)
    /\ <<uri, RDFS_label, Literal(<<"c","a","m","p"," ","a">>)>> \in graph
    /\ <<uri, RDFS_label, Literal(<<"C","a","m","p","-","A">>)>> \in graph

---------------------------------------------------------------------------
(* The rule table, and the cross product (link_entities, SpecLink).        *)

\* the rule table: (source type, target type) -> predicate
RuleTable ==
    { <<health_facility, location, "humanitarian:hasLocation">>,
      <<camp, location, "humanitarian:hasLocation">>,
      <<organization, service, "humanitarian:providesService">>,
      <<service_type, health_facility, "humanitarian:providesService">>,
      <<sickness_type, health_facility, "humanitarian:treats">>,
      <<person, camp, "humanitarian:registeredAt">>,
      <<need, person, "humanitarian:hasNeed">> }

\* the relationship triples of the graph: those that are no node triples
RelationTriples == { t \in graph : t[2] \notin { RDF_type, RDFS_label, ns_name } }

\* triple t links the nodes of a and b by predicate pred, one way or the other
Links(t, a, pred, b) ==
    \/ t = <<NodeOf(a), pred, NodeOf(b)>>
    \/ t = <<NodeOf(b), pred, NodeOf(a)>>

\* C15: for every rule and every batch, link_entities adds the rule's triple
\* for every pair of a source-type and a target-type entity of the batch, and
\* every relationship triple it adds is the triple of such a pair.
C15_FullCrossProductOnly ==
    pc = "linked" =>
        /\ \A r \in RuleTable :
              \A a \in BatchOfType(r[1]), b \in BatchOfType(r[2]) :
                 \E t \in RelationTriples : Links(t, a, r[3], b)
        /\ \A t \in RelationTriples :
              \E r \in RuleTable :
                 \E a \in BatchOfType(r[1]), b \in BatchOfType(r[2]) :
                    Links(t, a, r[3], b)

\* two facilities, two locations: four pairs of one rule have been linked
C15_Witness ==
    /\ pc = "linked"
    /\ Cardinality(BatchOfType(health_facility)) = 2
    /\ Cardinality(BatchOfType(location)) = 2
    /\ Len(batch) = 4
    /\ Cardinality(RelationTriples) = 4

---------------------------------------------------------------------------
(* Submissions and exceptions of update_triple_store (SpecStore).          *)

\* C16 as stated: a call makes no submission when the graph is empty (and
\* returns False), and exactly one otherwise.
C16_OneSubmissionUnlessEmpty ==
    pc = "synced" =>
        /\ graph = {} => (posts = 0 /\ result = Returns(FALSE))
        /\ graph # {} => posts = 1

\* C16 amended: a call makes at most one submission: none when the graph is
\* empty (it returns False) or when serializing the graph raises (the
\* exception leaves the call), exactly one otherwise; a failed submission is
\* not retried.
C16_AtMostOneSubmission ==
    pc = "synced" =>
        /\ posts <= 1
        /\ graph = {} => (posts = 0 /\ result = Returns(FALSE))
        /\ result.raised => posts = 0
        /\ (graph # {} /\ ~result.raised) => posts = 1

\* a submission has failed with a transport error and was made once
C16_Witness ==
    /\ pc = "synced"
    /\ graph # {}
    /\ posts = 1
    /\ store_reply.kind = "exception"
    /\ result = Returns(FALSE)

\* C17: update_triple_store never lets an exception reach its caller: every
\* failure is reported as the return value False.
C17_NeverPropagates ==
    pc = "synced" => ~result.raised

---------------------------------------------------------------------------
(* Population is additive (SpecGraph).                                     *)

\* C18: over any sequence of entity_to_rdf, link_entities and
\* update_triple_store calls, the triple set of the graph before a call is a
\* subset of its triple set after the call.
C18_AdditiveOnly == [][graph \subseteq graph']_vars

\* 'Goma' and then 'goma' have been mapped to one node, both labels are in
\* the graph, and the graph has been submitted
C18_Witness ==
    /\ uri = URIRef(<<"l","o","c","a","t","i","o","n","_","g","o","m","a">>)
    /\ <<uri, RDFS_label, Literal(<<"G","o","m","a">>)>> \in graph
    /\ <<uri, RDFS_label, Literal(<<"g","o","m","a">>)>> \in graph
    /\ posts = 1

---------------------------------------------------------------------------
(* Graceful degradation of format_query_results (SpecFormat).              *)

\* results is absent, empty, or holds an empty list of rows
NoRows ==
    \/ results.tag = "None"
    \/ results = PyDict(<<>>, <<>>)
    \/ /\ HasItem(results, "results")
       /\ HasItem(Item(results, "results"), "bindings")
       /\ Item(Item(results, "results"), "bindings") = PyList(<<>>)

\* the rows of results, when it holds a non-empty list of rows
GivenRows == Item(Item(results, "results"), "bindings").vals

HasRows ==
    /\ HasItem(results, "results")
    /\ HasItem(Item(results, "results"), "bindings")
    /\ Item(Item(results, "results"), "bindings").tag = "list"
    /\ GivenRows # <<>>

\* where a line of a built-in intent shows which field: <<field, piece>>
Shown(name) ==
    CASE name = "query_health_facilities_swa" ->
            { <<"facilityName", 2>>, <<"locName", 4>> }
      [] name = "query_water_sources_swa" ->
            { <<"sourceName", 2>>, <<"locName", 4>>, <<"status", 6>> }
      [] name = "query_camps_swa" ->
            { <<"campName", 2>>, <<"locName", 4>>, <<"capacity", 6>> }
      [] name = "submit_aid_request_swa" ->
            { <<"orgName", 2>>, <<"locName", 4>>, <<"serviceName", 6>> }

\* the field is missing from the row, or its entry holds no value
Missing(row, field) ==
    ~HasItem(row, field) \/ ~HasItem(Item(row, field), "value")

\* C19: with empty or absent results the call returns a non-empty fallback
\* string, the intent's own for the four built-in intents and the generic one
\* for any other name; for a built-in intent with rows it does not raise and
\* gives one line per row, in row order, showing 'Unknown' for each missing
\* field and the value for each other field.
C19_FallbackAndUnknown ==
    pc = "formatted" =>
        /\ NoRows =>
              /\ ~response.raised
              /\ Len(response.lines) = 1 /\ Len(response.lines[1]) = 1
              /\ response.lines[1][1] # ""
              /\ response.lines[1][1] =
                    (CASE intent = "query_health_facilities_swa" ->
                            "Samahani, hakuna vituo vya afya vilivyopatikana."
                       [] intent = "query_water_sources_swa" ->
                            "Samahani, hakuna vyanzo vya maji vilivyopatikana."
                       [] intent = "query_camps_swa" ->
                            "Samahani, hakuna kambi za wakimbizi zilizopatikana."
                       [] intent = "submit_aid_request_swa" ->
                            "Samahani, hakuna mashirika yanayotoa huduma hiyo yaliyopatikana."
                       [] OTHER -> "Samahani, hakuna majibu yaliyopatikana.")
        /\ (HasRows /\ intent \in BuiltinIntents) =>
              /\ ~response.raised
              /\ Len(response.lines) = 1 + Len(GivenRows)
              /\ \A i \in 1..Len(GivenRows) :
                    \A f \in Shown(intent) :
                       response.lines[i + 1][f[2]] =
                          IF Missing(GivenRows[i], f[1])
                          THEN "Unknown"
                          ELSE Item(Item(GivenRows[i], f[1]), "value").str

\* two camp rows have been formatted, the first without a name, the second
\* with its name but without a capacity
C19_Witness ==
    /\ pc = "formatted"
    /\ intent = "query_camps_swa"
    /\ Len(response.lines) = 3
    /\ response.lines[2][2] = "Unknown"
    /\ response.lines[3][2] = "Bulengo"
    /\ response.lines[3][6] = "Unknown"

---------------------------------------------------------------------------
(* Specification SpecTwoRuns: two process_hdx_data_for_ontology            *)
(* invocations whose steps interleave.  Here pc, sentences, idx, batch,    *)
(* result, store_reply and graph_ref hold one value per invocation, and    *)
(* graph holds the Graph objects allocated so far: graph[k] is the triple  *)
(* set of the k-th object, graph_ref[r] the object the local variable      *)
(* `graph` of invocation r names (0 before the assignment).                *)

Runs == { 1, 2 }

\* mutant of initialize_graph: one Graph object is handed to every caller
initialize_graph_Shared(objects) == IF objects = <<>> THEN << {} >> ELSE objects

\* initialize_graph(): g = Graph() allocates a new, empty Graph object; the
\* bind calls add no triple.  The result is the objects after the call, the
\* returned object being the last of them.
initialize_graph(objects) == Append(objects, {})

\* the body of `for sentence in sentences` on graph g: the graph after it
ProcessOne(sentence, g) ==
    LET ents == recognize_entities(sentence, NoEntities)
    IN  IF ents # <<>> THEN link_entities(ents, MapAll(ents, g, 1)) ELSE g

RunTexts == { ExampleText, <<"w","a","t","o","t","o"," ","w","a"," ","k","a","m","b","i"," ","y","a"," ","b","u","l","e","n","g","o">> }

\* what the library calls do in the update_triple_store calls made here
RunReplies ==
    { r \in StoreReplies : r.kind # "status" \/ r.code = 200 }

InitTwoRuns ==
    /\ pc = [r \in Runs |-> "extracted"]
    /\ sentences \in [Runs -> SeqsUpTo(RunTexts, MaxRunSentences)]
    /\ idx = [r \in Runs |-> 0]
    /\ graph_ref = [r \in Runs |-> 0]
    /\ graph = <<>>
    /\ batch = [r \in Runs |-> <<>>]
    /\ calls = 0 /\ uri = None
    /\ result = [r \in Runs |-> None]
    /\ store_reply = [r \in Runs |-> None]
    /\ posts = 0
    /\ IdleBuild /\ IdleRecog /\ IdleFormat
    /\ IdleCost

\* `if not sentences: return False`
RunNoSentences(r) ==
    /\ pc[r] = "extracted"
    /\ sentences[r] = <<>>
    /\ result' = [result EXCEPT ![r] = Returns(FALSE)]
    /\ pc' = [pc EXCEPT ![r] = "returned"]
    /\ UNCHANGED <<store_reply, posts, graphVars, processVars>>
    /\ UNCHANGED <<buildVars, recogVars, formatVars>>
    /\ UNCHANGED costVars

\* graph = initialize_graph()
RunInitGraph(r) ==
    /\ pc[r] = "extracted"
    /\ sentences[r] # <<>>
    /\ graph' = initialize_graph(graph)
    /\ graph_ref' = [graph_ref EXCEPT ![r] = Len(graph')]
    /\ idx' = [idx EXCEPT ![r] = 1]
    /\ pc' = [pc EXCEPT ![r] = "sentences"]
    /\ UNCHANGED <<batch, calls, uri, sentences, storeVars>>
    /\ UNCHANGED <<buildVars, recogVars, formatVars>>
    /\ UNCHANGED costVars

\* one iteration of `for sentence in sentences`
RunSentence(r) ==
    /\ pc[r] = "sentences"
    /\ idx[r] <= Len(sentences[r])
    /\ graph' = [graph EXCEPT ![graph_ref[r]] = ProcessOne(sentences[r][idx[r]], @)]
    /\ batch' = [batch EXCEPT ![r] = recognize_entities(sentences[r][idx[r]], NoEntities)]
    /\ idx' = [idx EXCEPT ![r] = @ + 1]
    /\ UNCHANGED <<pc, calls, uri, sentences, graph_ref, storeVars>>
    /\ UNCHANGED <<buildVars, recogVars, formatVars>>
    /\ UNCHANGED costVars

\* `success = update_triple_store(graph); return success`
RunSync(r, reply) ==
    /\ pc[r] = "sentences"
    /\ idx[r] > Len(sentences[r])
    /\ result' = [result EXCEPT ![r] = update_triple_store(graph[graph_ref[r]], reply)]
    /\ store_reply' = [store_reply EXCEPT
                          ![r] = IF Submits(graph[graph_ref[r]], reply) THEN reply ELSE @]
    /\ posts' = IF Submits(graph[graph_ref[r]], reply) THEN posts + 1 ELSE posts
    /\ pc' = [pc EXCEPT ![r] = "returned"]
    /\ UNCHANGED <<graphVars, processVars>>
    /\ UNCHANGED <<buildVars, recogVars, formatVars>>
    /\ UNCHANGED costVars

NextTwoRuns ==
    \E r \in Runs :
        \/ RunNoSentences(r)
        \/ RunInitGraph(r)
        \/ RunSentence(r)
        \/ \E reply \in RunReplies : RunSync(r, reply)

SpecTwoRuns == InitTwoRuns /\ [][NextTwoRuns]_vars

RECURSIVE RunAlone(_, _, _)
\* the graph an invocation builds from the sentences from index i on, on its
\* own
RunAlone(sents, g, i) ==
    IF i > Len(sents) THEN g
    ELSE RunAlone(sents, ProcessOne(sents[i], g), i + 1)

\* invocation r has reached, or has made, its update_triple_store call
AtSync(r) ==
    /\ sentences[r] # <<>>
    /\ pc[r] \in { "sentences", "returned" }
    /\ idx[r] > Len(sentences[r])

\* C20: however the steps of two invocations interleave, the graph each one
\* hands to update_triple_store is the graph it builds when run alone, and the
\* two invocations work on different Graph objects.
C20_NoSharedGraph ==
    /\ \A r \in Runs :
          AtSync(r) => graph[graph_ref[r]] = RunAlone(sentences[r], {}, 1)
    /\ (graph_ref[1] # 0 /\ graph_ref[2] # 0) => graph_ref[1] # graph_ref[2]

\* both invocations have returned, the second one having allocated its graph
\* first; only the first one's graph holds the triples of its sentence
C20_Witness ==
    /\ pc = [r \in Runs |-> "returned"]
    /\ sentences[1] = <<ExampleText>>
    /\ sentences[2] = << <<"w","a","t","o","t","o"," ","w","a"," ","k","a","m","b","i"," ","y","a"," ","b","u","l","e","n","g","o">> >>
    /\ graph_ref[2] = 1 /\ graph_ref[1] = 2
    /\ <<URIRef(<<"h","e","a","l","t","h","_","f","a","c","i","l","i","t","y","_","h","o","s","p","i","t","a","l","i">>), "humanitarian:hasLocation",
         URIRef(<<"l","o","c","a","t","i","o","n","_","g","o","m","a">>)>> \in graph[2]
    /\ <<URIRef(<<"h","e","a","l","t","h","_","f","a","c","i","l","i","t","y","_","h","o","s","p","i","t","a","l","i">>), "humanitarian:hasLocation",
         URIRef(<<"l","o","c","a","t","i","o","n","_","g","o","m","a">>)>> \notin graph[1]
    /\ graph[1] # {}

---------------------------------------------------------------------------
(* Pattern matching in recognize_entities (lines 116-158), checked under   *)
(* SpecRecog in the calls that reach it.                                   *)

\* the call fell back to pattern matching: no external list, an empty one,
\* or one none of whose items has both keys
OnFallback == pc = "recognized" /\ (ExternalGiven => UsableItems = {})

\* the (entity type, keyword) pairs of the pattern table, as indices
AllPairs ==
    UNION { { <<k, j>> : j \in 1..Len(patterns[k].keywords) } :
                k \in 1..Len(patterns) }

KeywordOf(p) == patterns[p[1]].keywords[p[2]]

\* the pairs whose keyword is a substring of the lower-cased text
Matching(txt) == { p \in AllPairs : contains(lower(txt), KeywordOf(p)) }

\* table order of the pairs
Before(q, p) == q[1] < p[1] \/ (q[1] = p[1] /\ q[2] <= p[2])

\* the entity of a matching pair: its place in the list is its rank among
\* the matching pairs
EntityOf(p) == entities[Cardinality({ q \in Matching(text) : Before(q, p) })]

\* C21: on the fallback path there is exactly one entity per (type, keyword)
\* pair whose keyword occurs in the lower-cased text, of that type, in table
\* order, around the keyword's first occurrence, and none for other pairs;
\* the empty text gives the empty list.
C21_OnePerMatchingPair ==
    OnFallback =>
        /\ Len(entities) = Cardinality(Matching(text))
        /\ \A p \in Matching(text) :
              LET pos == find(lower(text), KeywordOf(p), 0)
              IN  /\ EntityOf(p).type = patterns[p[1]].type
                  /\ EntityOf(p).start <= pos
                  /\ pos + Len(KeywordOf(p)) <= EntityOf(p).end
        /\ (text = <<>> => entities = <<>>)

\* the keyword 'goma' stands at two positions and gave a single entity, the
\* word at the first one
C21_Witness ==
    /\ OnFallback
    /\ CountOcc(lower(text), goma, 0) = 2
    /\ entities = << [type |-> location, value |-> goma, start |-> 0, end |-> 4] >>

Whitespace == { " ", "\t", "\n", "\r", "\f" }

\* the characters of s at the Python indices a .. b - 1
CharsIn(s, a, b) == { s[i + 1] : i \in a..(b - 1) }

\* C22 as stated: every fallback entity of a keyword found at pos has
\* 0 <= start <= pos and pos + len(keyword) <= end <= len(text), its value is
\* text[start:end], the characters just before start and at end, where they
\* exist, are whitespace, and no whitespace stands between start and pos or
\* between the keyword's end and end.
C22_WholeWordSpan ==
    OnFallback =>
        \A p \in Matching(text) :
            LET e == EntityOf(p)
                pos == find(lower(text), KeywordOf(p), 0)
                stop == pos + Len(KeywordOf(p))
            IN  /\ 0 <= e.start /\ e.start <= pos
                /\ stop <= e.end /\ e.end <= Len(text)
                /\ e.value = Slice(text, e.start, e.end)
                /\ (e.start > 0 => text[e.start] \in Whitespace)
                /\ (e.end < Len(text) => text[e.end + 1] \in Whitespace)
                /\ CharsIn(text, e.start, pos) \cap Whitespace = {}
                /\ CharsIn(text, stop, e.end) \cap Whitespace = {}

\* C30 as stated: on the fallback path no two entities of the list have the
\* same type, the same start and the same end.
C30_NoDuplicateSpan ==
    OnFallback =>
        \A i, j \in 1..Len(entities) :
            (/\ entities[i].type = entities[j].type
             /\ entities[i].start = entities[j].start
             /\ entities[i].end = entities[j].end) => i = j

---------------------------------------------------------------------------
(* The sentence loop and the single synchronisation of                     *)
(* process_hdx_data_for_ontology, checked under SpecProcess; calls counts  *)
(* the update_triple_store calls of the invocation.                        *)

\* the loop has ended and update_triple_store has not been called yet
LoopEnded == pc = "sentences" /\ idx > Len(sentences)

\* sentence i gave an entity whose node is n
SentenceHasNode(i, n) ==
    LET ents == recognize_entities(sentences[i], NoEntities)
    IN  \E k \in 1..Len(ents) : EntityURI(ents[k]) = n

\* C23: when the loop has ended, every relationship triple of the graph joins
\* two nodes that entities of one and the same sentence map to; entities
\* found only in different sentences are not linked.
C23_LinkedOnlyWithinSentence ==
    LoopEnded =>
        \A t \in RelationTriples :
            \E i \in 1..Len(sentences) :
                SentenceHasNode(i, t[1]) /\ SentenceHasNode(i, t[3])

\* a facility in the first sentence and a location in the second: both have
\* their nodes and no triple joins them
C23_Witness ==
    /\ LoopEnded
    /\ sentences = << <<"k","l","i","n","i","k","i">>, <<"G","o","m","a">> >>
    /\ URIRef(<<"h","e","a","l","t","h","_","f","a","c","i","l","i","t","y","_","k","l","i","n","i","k","i">>) \in Nodes
    /\ URIRef(<<"l","o","c","a","t","i","o","n","_","g","o","m","a">>) \in Nodes
    /\ RelationTriples = {}

\* what a reached submission makes update_triple_store return
ReplyResult(reply) ==
    Returns(reply.kind = "status" /\ reply.code \in SuccessCodes)

\* C25: an invocation calls update_triple_store at most once, and only when
\* every sentence has been recognized, mapped and linked, on the one graph
\* holding the triples of all sentences; what the invocation gives back is
\* what that call gave; with no sentence extracted it returns False and makes
\* no call.
C25_OneSyncAfterLoop ==
    /\ calls <= 1
    /\ calls = 1 => pc = "returned" /\ sentences # <<>> /\ idx > Len(sentences)
    /\ LoopEnded =>
          graph = UNION { ProcessOne(sentences[i], {}) : i \in 1..Len(sentences) }
    /\ pc = "returned" =>
          IF sentences = <<>>
          THEN calls = 0 /\ posts = 0 /\ result = Returns(FALSE)
          ELSE /\ calls = 1
               /\ posts = 1 => result = ReplyResult(store_reply)
               /\ graph = {} => posts = 0 /\ result = Returns(FALSE)

\* two sentences with entities were processed, the one call submitted the
\* graph of both and the invocation returned its True
C25_Witness ==
    /\ pc = "returned"
    /\ Len(sentences) = 2
    /\ calls = 1 /\ posts = 1
    /\ result = Returns(TRUE)
    /\ URIRef(<<"h","e","a","l","t","h","_","f","a","c","i","l","i","t","y","_","k","l","i","n","i","k","i">>) \in Nodes
    /\ URIRef(<<"p","e","r","s","o","n","_","w","a","t","o","t","o">>) \in Nodes

---------------------------------------------------------------------------
(* Specification SpecNlu: one process_nlu_for_query call, in its three     *)
(* steps: building the query, executing it, formatting the results.        *)

CouldNotBuildMessage == "Samahani, sikuweza kuunda hoja kwa ajili ya swali lako."

\* a row with every field of the template's branch, each with its value
FullRow(name) ==
    PyDict(RowFields(name),
           [k \in 1..Len(RowFields(name)) |-> WithValue(SampleValue(RowFields(name)[k]))])

\* what sparql.query().convert() does: it raises, or it gives the parsed
\* reply of the endpoint
QueryOutcomes(name) ==
    { [ok |-> FALSE, value |-> PyNone] }
    \cup { [ok |-> TRUE, value |-> v] :
             v \in { PyDict(<<>>, <<>>),
                     PyDict(<<"head", "boolean">>, <<PyDict(<<>>, <<>>), PyStr("true")>>),
                     PyDict(<<"results">>, <<PyDict(<<>>, <<>>)>>),
                     PyDict(<<"head", "results">>,
                            << PyDict(<<>>, <<>>),
                               PyDict(<<"bindings">>, <<PyList(<<>>)>>) >>),
                     PyDict(<<"head", "results">>,
                            << PyDict(<<>>, <<>>),
                               PyDict(<<"bindings">>, <<PyList(<<FullRow(name)>>)>>) >>),
                     PyDict(<<"head", "results">>,
                            << PyDict(<<>>, <<>>),
                               PyDict(<<"bindings">>,
                                      <<PyList(<<FullRow(name), PyDict(<<>>, <<>>)>>)>>) >>) } }

\* execute_query(query): the reply, or None when the library call raised
execute_query(q, outcome) == IF outcome.ok THEN outcome.value ELSE PyNone

\* slot mappings over the placeholder names of the built-in templates
NluSlots == UNION { [D -> SlotValues] : D \in SUBSET { location, request_type } }

InitNlu ==
    /\ pc = "nlu"
    /\ intent \in IntentNames
    /\ slots \in NluSlots
    /\ template = None /\ query = None
    /\ results = PyNone /\ response = Returned(<<>>)
    /\ IdleRecog /\ IdleGraph /\ IdleProcess /\ IdleStore
    /\ IdleCost

\* query = get_query_for_intent(intent, slots); `if not query: return ...`
NluBuild ==
    /\ pc = "nlu"
    /\ query' = get_query_for_intent(intent, slots)
    /\ IF Truthy(query')
       THEN pc' = "built" /\ UNCHANGED response
       ELSE pc' = "answered" /\ response' = Returned(<< <<CouldNotBuildMessage>> >>)
    /\ UNCHANGED <<template, slots, intent, results>>
    /\ UNCHANGED <<recogVars, graphVars, processVars, storeVars>>
    /\ UNCHANGED costVars

\* results = execute_query(query)
NluExecute(outcome) ==
    /\ pc = "built"
    /\ results' = execute_query(query, outcome)
    /\ calls' = calls + 1
    /\ pc' = "executed"
    /\ UNCHANGED <<template, slots, query, intent, response>>
    /\ UNCHANGED <<graph, batch, uri, recogVars, processVars, storeVars>>
    /\ UNCHANGED costVars

\* response = format_query_results(results, intent); return response
NluFormat ==
    /\ pc = "executed"
    /\ response' = format_query_results(results, intent)
    /\ pc' = "answered"
    /\ UNCHANGED <<template, slots, query, intent, results>>
    /\ UNCHANGED <<recogVars, graphVars, processVars, storeVars>>
    /\ UNCHANGED costVars

NextNlu ==
    \/ NluBuild
    \/ \E outcome \in QueryOutcomes(intent) : NluExecute(outcome)
    \/ NluFormat

SpecNlu == InitNlu /\ [][NextNlu]_vars

\* the query was executed only after build returned one
ExecutedOnlyBuilt == calls > 0 => (Truthy(query) /\ pc \in { "executed", "answered" })

\* an unknown intent or a null build ends in the could-not-build message
\* with no execution
NoQueryNoExecution ==
    (pc = "answered" /\ (intent \notin DOMAIN QUERY_TEMPLATES \/ query = None)) =>
        (calls = 0 /\ response = Returned(<< <<CouldNotBuildMessage>> >>))

\* a failed execution ends in the intent's no-results message
FailedGivesNoResults ==
    (pc = "answered" /\ calls = 1 /\ results = PyNone) =>
        response = Returned(<< <<NoResultsMessage(intent)>> >>)

\* C24 as stated: process_nlu_for_query never raises and always returns a
\* non-empty string; a query is executed only after build returned one; an
\* unknown intent or a null build gives the could-not-build message and no
\* execution; a failed execution gives the intent's no-results message.
C24_AlwaysAnswers ==
    /\ pc = "answered" => (~response.raised /\ response.lines # <<>>)
    /\ ExecutedOnlyBuilt
    /\ NoQueryNoExecution
    /\ FailedGivesNoResults

---------------------------------------------------------------------------
(* Specification SpecCost: one calculate_task_completion_cost call on a    *)
(* list of annotated dialogues. A dialogue is the sequence of its turns, a *)
(* turn the sequence of its tasks.                                         *)

\* self.task_types of OntologyPipelineEvaluator
task_types ==
    << "provide_information", "answer_query", "provide_entity_details",
       "list_entities", "explain_relationship", "other" >>

Task(type, id, success) == [type |-> type, id |-> id, success |-> success]

\* the annotated tasks: one that is open in a turn and one that succeeds,
\* other ids and types, and a type the evaluator does not know
CostTasks ==
    { Task("answer_query", "t1", FALSE), Task("answer_query", "t1", TRUE),
      Task("answer_query", "t2", TRUE), Task("list_entities", "t1", TRUE),
      Task("chitchat", "t1", TRUE) }

\* the turns: without tasks, with one task, with two
CostTurns ==
    { <<>> } \cup { <<t>> : t \in CostTasks }
        \cup { << Task("answer_query", "t1", FALSE), Task("answer_query", "t2", TRUE) >> }

CostDialogues == SeqsUpTo(CostTurns, MaxTurns)

\* the dialogue that may follow the first one
SecondDialogue == << << Task("answer_query", "t1", TRUE) >> >>

Known(t) == t.type \in Range(task_types)

Overall == "overall"

RECURSIVE Register(_, _, _)
\* `for task in turn.get("tasks", [])`, first loop: from index k, on the
\* pair of active_tasks and task_turn_count
Register(tasks, k, st) ==
    IF k > Len(tasks) THEN st
    ELSE IF ~Known(tasks[k]) THEN Register(tasks, k + 1, st)
    ELSE Register(tasks, k + 1,
            [active |-> [st.active EXCEPT ![tasks[k].type] = @ \cup { tasks[k].id }],
             count |-> [st.count EXCEPT ![<<tasks[k].type, tasks[k].id>>] = 1],
             turns |-> st.turns])

RECURSIVE Complete(_, _, _)
\* second loop: the successful tasks that are active are recorded and removed
Complete(tasks, k, st) ==
    IF k > Len(tasks) THEN st
    ELSE IF ~Known(tasks[k]) THEN Complete(tasks, k + 1, st)
    ELSE IF tasks[k].success /\ tasks[k].id \in st.active[tasks[k].type]
    THEN LET n == st.count[<<tasks[k].type, tasks[k].id>>]
         IN  Complete(tasks, k + 1,
                [active |-> [st.active EXCEPT ![tasks[k].type] = @ \ { tasks[k].id }],
                 count |-> st.count,
                 turns |-> [st.turns EXCEPT ![tasks[k].type] = Append(@, n),
                                            ![Overall] = Append(@, n)]])
    ELSE Complete(tasks, k + 1, st)

\* third loop: one more turn for every task still active
Increment(st) ==
    [st EXCEPT !.count =
        [key \in DOMAIN st.count |->
            IF key[2] \in st.active[key[1]] THEN st.count[key] + 1 ELSE st.count[key]]]

\* the body of `for turn_idx, turn in enumerate(...)`
ProcessTurn(tasks, st) == Increment(Complete(tasks, 1, Register(tasks, 1, st)))

RECURSIVE Sum(_)
Sum(l) == IF l = <<>> THEN 0 ELSE l[1] + Sum(Tail(l))

\* np.mean of a non-empty list, as the fraction sum / length; 0.0 otherwise
Mean(l) ==
    IF l # <<>> THEN [num |-> Sum(l), den |-> Len(l)] ELSE [num |-> 0, den |-> 1]

\* the keys the turn counter can get
CostKeys == { <<t.type, t.id>> : t \in { u \in CostTasks : Known(u) } }

InitCost ==
    /\ pc = "dialogues"
    /\ dialogues \in { <<>> } \cup { <<d>> : d \in CostDialogues }
                        \cup { <<d, SecondDialogue>> : d \in CostDialogues }
    /\ dlg = 0 /\ turn_idx = 0
    /\ task_turn_count = [key \in CostKeys |-> 0]
    /\ active_tasks = [t \in Range(task_types) |-> {}]
    /\ task_turns = [t \in Range(task_types) \cup { Overall } |-> <<>>]
    /\ completion_costs = <<>>
    /\ IdleBuild /\ IdleRecog /\ IdleGraph /\ IdleProcess /\ IdleStore /\ IdleFormat

\* `for dialogue in self.dialogues`: fresh counters and active sets
CostNextDialogue ==
    /\ pc = "dialogues"
    /\ dlg < Len(dialogues)
    /\ dlg' = dlg + 1
    /\ turn_idx' = 0
    /\ task_turn_count' = [key \in CostKeys |-> 0]
    /\ active_tasks' = [t \in Range(task_types) |-> {}]
    /\ pc' = "turns"
    /\ UNCHANGED <<dialogues, task_turns, completion_costs>>
    /\ UNCHANGED <<buildVars, recogVars, graphVars, processVars, storeVars, formatVars>>

\* one turn of the dialogue at hand
CostTurn ==
    /\ pc = "turns"
    /\ turn_idx < Len(dialogues[dlg])
    /\ LET st == ProcessTurn(dialogues[dlg][turn_idx + 1],
                             [active |-> active_tasks, count |-> task_turn_count,
                              turns |-> task_turns])
       IN  /\ active_tasks' = st.active
           /\ task_turn_count' = st.count
           /\ task_turns' = st.turns
    /\ turn_idx' = turn_idx + 1
    /\ UNCHANGED <<pc, dialogues, dlg, completion_costs>>
    /\ UNCHANGED <<buildVars, recogVars, graphVars, processVars, storeVars, formatVars>>

\* the turns of the dialogue are exhausted
CostEndDialogue ==
    /\ pc = "turns"
    /\ turn_idx = Len(dialogues[dlg])
    /\ pc' = "dialogues"
    /\ UNCHANGED costVars
    /\ UNCHANGED <<buildVars, recogVars, graphVars, processVars, storeVars, formatVars>>

\* the averages per task type and overall, and the return
CostAverage ==
    /\ pc = "dialogues"
    /\ dlg = Len(dialogues)
    /\ completion_costs' = [t \in DOMAIN task_turns |-> Mean(task_turns[t])]
    /\ pc' = "costed"
    /\ UNCHANGED <<dialogues, dlg, turn_idx, task_turn_count, active_tasks, task_turns>>
    /\ UNCHANGED <<buildVars, recogVars, graphVars, processVars, storeVars, formatVars>>

NextCost ==
    \/ CostNextDialogue
    \/ CostTurn
    \/ CostEndDialogue
    \/ CostAverage

SpecCost == InitCost /\ [][NextCost]_vars

\* the success marks of known task types: dialogue, turn (0-based), task
SuccessMarks ==
    UNION { UNION { { <<d, j, k>> :
                        k \in { h \in 1..Len(dialogues[d][j + 1]) :
                                  /\ Known(dialogues[d][j + 1][h])
                                  /\ dialogues[d][j + 1][h].success } } :
                    j \in 0..(Len(dialogues[d]) - 1) } :
            d \in 1..Len(dialogues) }

TaskAt(m) == dialogues[m[1]][m[2] + 1][m[3]]

\* the turn of dialogue d in which the task of type t and id i first appears
FirstTurn(d, t, i) ==
    CHOOSE j \in 0..(Len(dialogues[d]) - 1) :
        /\ \E k \in 1..Len(dialogues[d][j + 1]) :
              dialogues[d][j + 1][k].type = t /\ dialogues[d][j + 1][k].id = i
        /\ \A h \in 0..(j - 1) :
              \A k \in 1..Len(dialogues[d][h + 1]) :
                 ~(dialogues[d][h + 1][k].type = t /\ dialogues[d][h + 1][k].id = i)

\* the turns a success mark took: from the first appearance through the mark
TurnsNeeded(m) == m[2] - FirstTurn(m[1], TaskAt(m).type, TaskAt(m).id) + 1

RECURSIVE SumNeeded(_)
SumNeeded(M) ==
    IF M = {} THEN 0
    ELSE LET m == CHOOSE x \in M : TRUE IN TurnsNeeded(m) + SumNeeded(M \ { m })

MarksOf(t) == { m \in SuccessMarks : t = Overall \/ TaskAt(m).type = t }

\* no task is marked successful twice in one dialogue
MarkedOnce ==
    \A m, n \in SuccessMarks :
        (m[1] = n[1] /\ TaskAt(m).type = TaskAt(n).type /\ TaskAt(m).id = TaskAt(n).id)
            => m = n

\* C26 as stated: for dialogues in which no task is marked successful twice,
\* the counts recorded per task type and overall are, one per successful
\* task, the number of turns from the turn the task id first appears in
\* through the turn it is marked successful in, and the reported cost is
\* their average (0.0 where there is none).
C26_CostIsTurnsNeeded ==
    (pc = "costed" /\ MarkedOnce) =>
        \A t \in DOMAIN task_turns :
            /\ Len(task_turns[t]) = Cardinality(MarksOf(t))
            /\ Sum(task_turns[t]) = SumNeeded(MarksOf(t))
            /\ completion_costs[t].num * (IF MarksOf(t) = {} THEN 1 ELSE Cardinality(MarksOf(t)))
                  = SumNeeded(MarksOf(t)) * completion_costs[t].den

---------------------------------------------------------------------------
(* Node URIs and entity types (entity_to_rdf, lines 172-178), checked      *)
(* under SpecRepeat on two entity_to_rdf calls.                            *)

\* C27 as stated: two entities of different types never get the same node
\* URI from entity_to_rdf, whatever their values.
C27_URIDeterminesType ==
    [][ (pc = "map_second" /\ batch[1].type # batch[2].type) => uri' # uri ]_vars

---------------------------------------------------------------------------
(* The types recognize_entities emits and the class entity_to_rdf gives    *)
(* them, checked under SpecRecog.                                          *)

\* the keys of the alias table of the external path
AliasKeys ==
    { health_facility, water_source, location, service_type, request_type,
      person, sickness_type, person_name }

\* every external item that was used has a type that is a key of the alias
\* table
FromAliased ==
    /\ ExternalGiven
    /\ UsableItems # {}
    /\ \A i \in UsableItems : rasa_entities.items[i]["entity"] \in AliasKeys

\* entity_to_rdf gives the entity's node the generic class
GenericClass(e) ==
    \E t \in entity_to_rdf(e, {}) : t[2] = RDF_type /\ t[3] = URIRef(<<"E","n","t","i","t","y">>)

\* C28 as stated: no entity recognized by pattern matching, or from external
\* items whose types are keys of the alias table, gets the generic Entity
\* class from entity_to_rdf.
C28_NeverGenericClass ==
    (pc = "recognized" /\ (OnFallback \/ FromAliased)) =>
        \A i \in 1..Len(entities) : ~GenericClass(entities[i])

---------------------------------------------------------------------------
(* What link_entities adds for the entities of a batch, checked under      *)
(* SpecLink, where the graph is empty before the call.                     *)

\* the entity's type is one side of a rule whose other side is in the batch
Partnered(e) ==
    \E r \in RuleTable :
        \/ e.type = r[1] /\ BatchOfType(r[2]) # {}
        \/ e.type = r[2] /\ BatchOfType(r[1]) # {}

Participants == { e \in Range(batch) : Partnered(e) }

ParticipantNodes == { NodeOf(e) : e \in Participants }

\* C29: after link_entities every triple of the graph has the node of a
\* participating entity as its subject, and every relationship triple has
\* one as its object too; a batch without participants (the empty batch, a
\* batch of one type) leaves the graph unchanged, and the node of an entity
\* whose type has no partner type in the batch has no triple.
C29_OnlyParticipants ==
    pc = "linked" =>
        /\ \A t \in graph : t[1] \in ParticipantNodes
        /\ \A t \in RelationTriples : t[3] \in ParticipantNodes
        /\ Participants = {} => graph = {}
        /\ \A e \in Range(batch) \ Participants :
              NodeOf(e) \notin ParticipantNodes => NodeOf(e) \notin Nodes

\* a facility and a location were linked, and the need that came with them,
\* with no person in the batch, got no node
C29_Witness ==
    /\ pc = "linked"
    /\ batch = << Entity(health_facility, hospitali), Entity(need, <<"c","h","a","k","u","l","a">>),
                  Entity(location, goma) >>
    /\ <<URIRef(<<"h","e","a","l","t","h","_","f","a","c","i","l","i","t","y","_","h","o","s","p","i","t","a","l","i">>), "humanitarian:hasLocation",
         URIRef(<<"l","o","c","a","t","i","o","n","_","g","o","m","a">>)>> \in graph
    /\ URIRef(<<"n","e","e","d","_","c","h","a","k","u","l","a">>) \notin Nodes

=============================================================================
